---- MODULE Spec2Model ----
(***************************************************************************)
(* Document-to-canvas layout engine of quelo.tech.                         *)
(*                                                                         *)
(* Strings are TLA+ strings; a character is a string of length 1, read     *)
(* with SubSeq.  Positions are 1-based (JavaScript index + 1).             *)
(*                                                                         *)
(* Specifications:                                                         *)
(*   SpecSegment  the equation-marker segmenter (markdown.ts)              *)
(*   SpecMermaid  the bracket-quoting diagram preprocessor                 *)
(*   SpecTable    convertHtmlTableToMarkdown / createVisualTableElements   *)
(*   Spec         the document walker convertMarkdownTreeToElements        *)
(*   FairSpec     Spec with weak fairness of the walker's steps            *)
(***************************************************************************)
EXTENDS Integers, Sequences, FiniteSets, TLC

VARIABLES
    \* ---- diagram preprocessor ----
    mermaidCode,   \* the raw diagram description
    processed,     \* the preprocessor's latest output
    previous,      \* its input on the latest run
    runs,          \* how many times it has run
    \* ---- segmenter ----
    pieces,        \* the fragments the text blob is built from
    textContent,   \* the blob handed to the segmenter
    parts,         \* the segments it produced
    segResult,     \* processTextWithLatex's result {elements, newY}
    segPc,         \* "input" | "segmented" | "done"
    \* ---- table formatter ----
    tabSource,   \* where the table comes from: html markup or a table node
    tabMarkdown, \* the pipe-delimited markdown handed to the formatter
    tabRows,     \* rows: the TableGrid parsed from it
    tabColWidths,     \* the column widths after both passes
    tabElements, \* the primitives createVisualTableElements returns
    tabPc,         \* "input" | "markdown" | "done"
    \* ---- document walker: convertMarkdownTreeToElements ----
    tree,               \* tree.children, the top-level nodes
    tableBlocks,        \* the HTML tables the TABLE_BLOCK_n markers refer to
    origin,             \* [x |-> startX, y |-> startY]
    pc,                 \* "loop" | "traverse" | "delay" | "returned" | "rejected"
                        \* ("thrown": an exception left traverse)
    childIdx,           \* how many top-level children have been started
    agenda,             \* the nodes and paragraph parts still to be handled, in order
    currentY,           \* the vertical cursor
    elements,           \* the primitives returned at the end of the pass
    nodeElements,       \* the primitives of the top-level child being traversed
    accumulatedElements,\* what the scene was last updated with
    files,              \* the file data handed to addFiles
    scene,              \* the elements the host's scene was last updated with
    yAtStart,           \* currentY as read when each top-level child was started
    calls,              \* the calls made while traversing the current child
    steps,              \* how many steps of the pass the event loop has run
    \* ---- typesetting engine ----
    windowMathJax,      \* whether window.MathJax is set
    headScripts,        \* how many loader scripts have been appended to the head
    renderPc,           \* per render call: "idle" | "loading" | "typesetting" | "returned"
    renderResult,       \* per render call: what convertLatexToImage returned
    \* ---- diagram code extraction ----
    diagramInput,       \* the text handed to processMermaidCode
    diagramResult,      \* what it did: [thrown, code]
    diagramPc,          \* "idle" | "input" | "done"
    \* ---- the AI service's retry over its API keys ----
    apiKeys,            \* this.apiKeys
    currentKeyIndex,    \* this.currentKeyIndex
    attempts,           \* the local attempts of the running executeWithRetry
    retryPc,            \* "idle" | "awaiting" (the operation) | "settled"
    retryResult,        \* how the last call settled: [kind, error]
    invoked,            \* the key index the client held at each invocation of the operation
    failures,           \* the error of each invocation that rejected
    rotated,            \* rotateApiKey calls of the running executeWithRetry
    retryCalls,         \* executeWithRetry calls begun
    \* ---- executeWithRetry calls that overlap on the one service ----
    running,            \* per call: [pc, attempts, invoked, failures, result]
    \* ---- other writers of the host scene ----
    otherWrites,        \* the elements other writers added to the scene during the pass
    \* ---- the analysis passes and the store's processing flag ----
    isProcessing,       \* the store's isProcessing
    passes,             \* per analyzeFrame call: [pc, stage]
    hook,               \* which processWithAI is mounted: "full" | "definitionOnly"
    \* ---- the whiteboard store's diagram data and the canvas wrapper ----
    mermaidData,        \* the store's mermaidData: [definition, output, error]
    storeCalls,         \* updateMermaidDefinition / appendMermaidDefinition calls, in call order
    appendMode,         \* the wrapper's appendMode prop
    canvas,             \* the elements of the wrapper's scene
    rendered,           \* the definition and output the wrapper's effect last ran with
    \* ---- the document body ----
    tempDivs            \* per render call: is its off-screen container a child of document.body

segVars == <<pieces, textContent, parts, segResult, segPc>>

merVars == <<mermaidCode, processed, previous, runs>>

tabVars == <<tabSource, tabMarkdown, tabRows, tabColWidths, tabElements, tabPc>>

walkVars == <<tree, tableBlocks, origin, pc, childIdx, agenda, currentY, elements,
              nodeElements, accumulatedElements, files, scene, yAtStart, calls, steps>>

engVars == <<windowMathJax, headScripts, renderPc, renderResult>>

capVars == <<diagramInput, diagramResult, diagramPc>>

retryVars == <<apiKeys, currentKeyIndex, attempts, retryPc, retryResult, invoked, failures,
               rotated, retryCalls>>

overlapVars == <<running>>

sharedVars == <<otherWrites>>

procVars == <<isProcessing, passes, hook>>

storeVars == <<mermaidData, storeCalls, appendMode, canvas, rendered>>

domVars == <<tempDivs>>

vars == <<segVars, merVars, tabVars, walkVars, engVars, capVars, retryVars,
         overlapVars, sharedVars, procVars, storeVars, domVars>>

(***************************************************************************)
(* The state of a component that a specification does not exercise.        *)
(***************************************************************************)
SegIdle == [elements |-> <<>>, files |-> <<>>, newY |-> 0]

SegmentIdle ==
    /\ pieces = <<>>
    /\ textContent = ""
    /\ parts = <<>>
    /\ segResult = SegIdle
    /\ segPc = "idle"

MermaidIdle ==
    /\ mermaidCode = ""
    /\ processed = ""
    /\ previous = ""
    /\ runs = 0

NoSource == [kind |-> "none", rows |-> <<>>]

TableIdle ==
    /\ tabSource = NoSource
    /\ tabMarkdown = ""
    /\ tabRows = <<>>
    /\ tabColWidths = <<>>
    /\ tabElements = <<>>
    /\ tabPc = "idle"

WalkerIdle ==
    /\ tree = <<>>
    /\ tableBlocks = <<>>
    /\ origin = [x |-> 0, y |-> 0]
    /\ pc = "idle"
    /\ childIdx = 0
    /\ agenda = <<>>
    /\ currentY = 0
    /\ elements = <<>>
    /\ nodeElements = <<>>
    /\ accumulatedElements = <<>>
    /\ files = <<>>
    /\ scene = <<>>
    /\ yAtStart = <<>>
    /\ calls = <<>>
    /\ steps = 0

EngineIdle ==
    /\ windowMathJax = FALSE
    /\ headScripts = 0
    /\ renderPc = <<>>
    /\ renderResult = <<>>

NoResult == [thrown |-> FALSE, code |-> ""]

ExtractionIdle ==
    /\ diagramInput = ""
    /\ diagramResult = NoResult
    /\ diagramPc = "idle"

NoError == [status |-> 0, message |-> "", code |-> ""]

Unsettled == [kind |-> "none", error |-> NoError]

RetryIdle ==
    /\ apiKeys = <<>>
    /\ currentKeyIndex = 0
    /\ attempts = 0
    /\ retryPc = "idle"
    /\ retryResult = Unsettled
    /\ invoked = <<>>
    /\ failures = <<>>
    /\ rotated = 0
    /\ retryCalls = 0

OverlapIdle == running = <<>>

SharedIdle ==
    otherWrites = <<>>

ProcessingIdle ==
    /\ isProcessing = FALSE
    /\ passes = <<>>
    /\ hook = "none"

NoOutput == [id |-> 0, of |-> ""]

InitialMermaidData == [definition |-> "", output |-> NoOutput, error |-> ""]

StoreIdle ==
    /\ mermaidData = InitialMermaidData
    /\ storeCalls = <<>>
    /\ appendMode = TRUE
    /\ canvas = <<>>
    /\ rendered = <<"", NoOutput>>

DocumentIdle ==
    tempDivs = <<>>

(***************************************************************************)
(* String helpers (String.prototype methods used by the sources).          *)
(***************************************************************************)
Char(s, i) == SubSeq(s, i, i)

Max(a, b) == IF a >= b THEN a ELSE b
Min(a, b) == IF a <= b THEN a ELSE b

\* pat occurs in s at position i
MatchesAt(s, pat, i) ==
    /\ i >= 1
    /\ i + Len(pat) - 1 <= Len(s)
    /\ SubSeq(s, i, i + Len(pat) - 1) = pat

StartsWith(s, pat) == MatchesAt(s, pat, 1)
EndsWith(s, pat) == MatchesAt(s, pat, Len(s) - Len(pat) + 1)

\* smallest position >= from at which pat occurs in s, 0 when there is none
IndexOfFrom(s, pat, from) ==
    LET hits == {i \in from..(Len(s) - Len(pat) + 1) : MatchesAt(s, pat, i)}
    IN IF hits = {} THEN 0 ELSE CHOOSE i \in hits : \A j \in hits : i <= j

Includes(s, pat) == IndexOfFrom(s, pat, 1) # 0

\* the characters \s matches among those the model's inputs use
IsSpace(c) == c \in {" ", "\n", "\t"}

RECURSIVE TrimStart(_)
TrimStart(s) ==
    IF Len(s) > 0 /\ IsSpace(Char(s, 1)) THEN TrimStart(SubSeq(s, 2, Len(s))) ELSE s

RECURSIVE TrimEnd(_)
TrimEnd(s) ==
    IF Len(s) > 0 /\ IsSpace(Char(s, Len(s))) THEN TrimEnd(SubSeq(s, 1, Len(s) - 1)) ELSE s

Trim(s) == TrimEnd(TrimStart(s))

\* s.slice(a) with a >= 0 (0-based start)
SliceFrom(s, a) == SubSeq(s, a + 1, Len(s))

\* s.slice(a, -b) with a >= 0, b > 0
SliceBetween(s, a, b) == SubSeq(s, a + 1, Len(s) - b)

RECURSIVE Concat(_)
Concat(ss) == IF ss = <<>> THEN "" ELSE Head(ss) \o Concat(Tail(ss))

RECURSIVE JoinWith(_, _)
JoinWith(ss, sep) ==
    IF ss = <<>> THEN ""
    ELSE IF Len(ss) = 1 THEN ss[1]
    ELSE ss[1] \o sep \o JoinWith(Tail(ss), sep)

RECURSIVE FlatSeq(_)
FlatSeq(ss) == IF ss = <<>> THEN <<>> ELSE Head(ss) \o FlatSeq(Tail(ss))

(***************************************************************************)
(* Text Segmenter: /<latex>(.*?)<\/latex>/g scanned with exec().           *)
(***************************************************************************)
OpenTag == "<latex>"
CloseTag == "</latex>"

\* '.' does not match a line terminator
RECURSIVE NoNewline(_, _, _)
NoNewline(s, from, to) ==
    IF from > to THEN TRUE
    ELSE Char(s, from) # "\n" /\ NoNewline(s, from + 1, to)

\* the regex anchored at position i: the position of the closing tag of the
\* lazy match, 0 when the regex does not match at i
LatexMatchAt(s, i) ==
    IF ~MatchesAt(s, OpenTag, i) THEN 0
    ELSE LET c == IndexOfFrom(s, CloseTag, i + Len(OpenTag))
         IN IF c # 0 /\ NoNewline(s, i + Len(OpenTag), c - 1) THEN c ELSE 0

\* exec() from position `from`: the leftmost match, [start, close], start = 0
\* when there is none
RECURSIVE LatexExec(_, _)
LatexExec(s, from) ==
    IF from > Len(s) THEN [start |-> 0, close |-> 0]
    ELSE IF LatexMatchAt(s, from) # 0
         THEN [start |-> from, close |-> LatexMatchAt(s, from)]
    ELSE LatexExec(s, from + 1)

TextPart(c) == [type |-> "text", content |-> c]
LatexPart(c) == [type |-> "latex", content |-> c]

\* the while loop and the "remaining text" push; last = lastIndex + 1
RECURSIVE LatexSegmentsFrom(_, _)
LatexSegmentsFrom(s, last) ==
    LET m == LatexExec(s, last) IN
    IF m.start = 0
    THEN IF last <= Len(s) THEN <<TextPart(SubSeq(s, last, Len(s)))>> ELSE <<>>
    ELSE (IF m.start > last THEN <<TextPart(SubSeq(s, last, m.start - 1))>> ELSE <<>>)
         \o <<LatexPart(Trim(SubSeq(s, m.start + Len(OpenTag), m.close - 1)))>>
         \o LatexSegmentsFrom(s, m.close + Len(CloseTag))

\* a variant that pushes the text before a marker also when it is empty
RECURSIVE LatexSegmentsKeepEmptyFrom(_, _)
LatexSegmentsKeepEmptyFrom(s, last) ==
    LET m == LatexExec(s, last) IN
    IF m.start = 0
    THEN IF last <= Len(s) THEN <<TextPart(SubSeq(s, last, Len(s)))>> ELSE <<>>
    ELSE <<TextPart(SubSeq(s, last, m.start - 1))>>
         \o <<LatexPart(Trim(SubSeq(s, m.start + Len(OpenTag), m.close - 1)))>>
         \o LatexSegmentsKeepEmptyFrom(s, m.close + Len(CloseTag))

LatexSegmentsKeepEmpty(s) == LatexSegmentsKeepEmptyFrom(s, 1)

\* the remaining-text test written with <= : an empty tail is pushed too
RECURSIVE LatexSegmentsEmptyTailFrom(_, _)
LatexSegmentsEmptyTailFrom(s, last) ==
    LET m == LatexExec(s, last) IN
    IF m.start = 0
    THEN IF last <= Len(s) + 1 THEN <<TextPart(SubSeq(s, last, Len(s)))>> ELSE <<>>
    ELSE (IF m.start > last THEN <<TextPart(SubSeq(s, last, m.start - 1))>> ELSE <<>>)
         \o <<LatexPart(Trim(SubSeq(s, m.start + Len(OpenTag), m.close - 1)))>>
         \o LatexSegmentsEmptyTailFrom(s, m.close + Len(CloseTag))

LatexSegmentsEmptyTail(s) == LatexSegmentsEmptyTailFrom(s, 1)

\* processTextWithLatex, lines 59-88: the parts array
LatexSegments(s) == LatexSegmentsFrom(s, 1)

\* the same loop as inlined in traverse's paragraph branch, lines 391-420
ParagraphTextParts(s) == LatexSegmentsFrom(s, 1)

(***************************************************************************)
(* Visual primitives.  Only the fields the layout decides are kept; the    *)
(* random id suffix is dropped, fileId is the 1-based position at which    *)
(* the image was pushed (0: not an image).  `defined` lists which of x, y  *)
(* and height the producer set (a converter element may lack them).        *)
(***************************************************************************)
AllDefined == {"x", "y", "height"}

Prim(type, id, x, y, width, height, text, fontSize, strokeColor) ==
    [type |-> type, id |-> id, x |-> x, y |-> y, width |-> width,
     height |-> height, text |-> text, fontSize |-> fontSize,
     strokeColor |-> strokeColor, fileId |-> 0, defined |-> AllDefined]

ImagePrim(id, x, y, width, height, fileId) ==
    [type |-> "image", id |-> id, x |-> x, y |-> y, width |-> width,
     height |-> height, text |-> "", fontSize |-> 0,
     strokeColor |-> "transparent", fileId |-> fileId, defined |-> AllDefined]

FileData(fileId, dataURL) ==
    [id |-> fileId, dataURL |-> dataURL, mimeType |-> "image/svg+xml"]

Black == "#000000"
ErrorRed == "#ff0000"
FallbackOrange == "#ff6b35"

(***************************************************************************)
(* Equation Rasterizer.  `raster` is what the typesetting engine does:     *)
(*   "svg"            typesetPromise resolves and an svg node exists       *)
(*   "noSvg"          it resolves but no svg node is found                 *)
(*   "typesetThrows"  typesetPromise rejects / serialization throws        *)
(*   "loadFails"      loadMathJax rejects                                  *)
(* The try/catch turns every failure into the empty string.                *)
(***************************************************************************)
RasterOutcomes == {"svg", "noSvg", "typesetThrows", "loadFails"}

ConvertLatexToImage(latexCode, raster) ==
    IF raster = "svg" THEN "data:image/svg+xml;base64," \o "svg(" \o latexCode \o ")"
    ELSE ""

\* what one equation's external calls do: the rasterizer and the host's addFiles
LatexOutcomes ==
    {[raster |-> r, addFiles |-> "ok"] : r \in RasterOutcomes}
    \cup {[raster |-> "svg", addFiles |-> "throws"]}

(***************************************************************************)
(* processTextWithLatex (markdown.ts 55-283).  oracle[k] is the outcome of *)
(* the external calls made for the k-th equation part.                     *)
(***************************************************************************)
RECURSIVE NumLatex(_)
NumLatex(ps) ==
    IF ps = <<>> THEN 0
    ELSE (IF Head(ps).type = "latex" THEN 1 ELSE 0) + NumLatex(Tail(ps))

\* the for loop over parts, lines 129-280; k counts the equation parts met
RECURSIVE ProcessTextParts(_, _, _, _, _, _)
ProcessTextParts(ps, x, y, oracle, k, acc) ==
    IF ps = <<>> THEN [elements |-> acc.elements, files |-> acc.files, newY |-> y]
    ELSE
    LET part == Head(ps) IN
    IF part.type = "latex"
    THEN LET o == oracle[k]
             imageDataUrl == ConvertLatexToImage(part.content, o.raster)
             fileId == Len(acc.elements) + 1
             image == ImagePrim("latex", x, y, 300, 50, fileId)
         IN IF imageDataUrl # ""
            THEN IF o.addFiles = "ok"
                 THEN ProcessTextParts(Tail(ps), x, y + 60, oracle, k + 1,
                        [elements |-> Append(acc.elements, image),
                         files |-> Append(acc.files, FileData(fileId, imageDataUrl))])
                 ELSE \* addFiles throws after the image was pushed: the catch block
                      ProcessTextParts(Tail(ps), x, y + 30, oracle, k + 1,
                        [elements |-> acc.elements \o
                            <<image,
                              Prim("text", "latex-error", x, y, 300, 25,
                                   "LaTeX Error: " \o part.content, 14, ErrorRed)>>,
                         files |-> acc.files])
            ELSE ProcessTextParts(Tail(ps), x, y + 30, oracle, k + 1,
                   [elements |-> Append(acc.elements,
                        Prim("text", "latex-error", x, y, 300, 25,
                             "LaTeX: " \o part.content, 14, FallbackOrange)),
                    files |-> acc.files])
    ELSE IF Trim(part.content) # ""
    THEN ProcessTextParts(Tail(ps), x, y + 30, oracle, k,
           [elements |-> Append(acc.elements,
                Prim("text", "text", x, y, 400, 25, part.content, 14, Black)),
            files |-> acc.files])
    ELSE ProcessTextParts(Tail(ps), x, y, oracle, k, acc)

ProcessTextWithLatex(text, startX, depth, y, oracle) ==
    LET ps == LatexSegments(text)
        x == startX + depth * 20
    IN IF Len(ps) = 0 \/ (Len(ps) = 1 /\ ps[1].type = "text")
       THEN IF Trim(text) # ""
            THEN [elements |-> <<Prim("text", "text", x, y, 400, 30, text, 14, Black)>>,
                  files |-> <<>>, newY |-> y + 30]
            ELSE [elements |-> <<>>, files |-> <<>>, newY |-> y]
       ELSE ProcessTextParts(ps, x, y, oracle, 1, [elements |-> <<>>, files |-> <<>>])


(***************************************************************************)
(* Diagram Preprocessor: preprocessMermaidCode (mermaid module).           *)
(***************************************************************************)
\* s.replace(/from/g, to) for a literal `from`
RECURSIVE ReplaceAllFrom(_, _, _, _)
ReplaceAllFrom(s, from, to, i) ==
    LET k == IndexOfFrom(s, from, i)
    IN IF k = 0 THEN SubSeq(s, i, Len(s))
       ELSE SubSeq(s, i, k - 1) \o to \o ReplaceAllFrom(s, from, to, k + Len(from))

ReplaceAll(s, from, to) == ReplaceAllFrom(s, from, to, 1)

\* s.split(sep) for a one-character separator
RECURSIVE SplitFrom(_, _, _)
SplitFrom(s, sep, i) ==
    LET k == IndexOfFrom(s, sep, i)
    IN IF k = 0 THEN <<SubSeq(s, i, Len(s))>>
       ELSE <<SubSeq(s, i, k - 1)>> \o SplitFrom(s, sep, k + 1)

Split(s, sep) == SplitFrom(s, sep, 1)

\* the end of a match of /<br\s*\/?>/i starting at position i, 0 when none
RECURSIVE SkipSpaces(_, _)
SkipSpaces(s, i) == IF i <= Len(s) /\ IsSpace(Char(s, i)) THEN SkipSpaces(s, i + 1) ELSE i

BrMatchEnd(s, i) ==
    IF ~(\E t \in {"<br", "<BR", "<Br", "<bR"} : MatchesAt(s, t, i)) THEN 0
    ELSE LET j == SkipSpaces(s, i + 3)
             k == IF MatchesAt(s, "/", j) THEN j + 1 ELSE j
         IN IF MatchesAt(s, ">", k) THEN k ELSE 0

\* mermaidCode.replace(/<br\s*\/?>/gi, '\n')
RECURSIVE ReplaceBr(_, _)
ReplaceBr(s, i) ==
    IF i > Len(s) THEN ""
    ELSE IF BrMatchEnd(s, i) # 0 THEN "\n" \o ReplaceBr(s, BrMatchEnd(s, i) + 1)
    ELSE Char(s, i) \o ReplaceBr(s, i + 1)

EscapeContent(content) ==
    Trim(ReplaceAll(ReplaceAll(ReplaceAll(ReplaceAll(ReplaceAll(content,
        "&", "&amp;"), "<", "&lt;"), ">", "&gt;"), "\"", "&quot;"), "'", "&#39;"))

IsAlreadyQuoted(content) ==
    LET trimmed == Trim(content) IN
    \/ (StartsWith(trimmed, "\"") /\ EndsWith(trimmed, "\""))
    \/ (StartsWith(trimmed, "'") /\ EndsWith(trimmed, "'"))

\* the loop of isInsideQuotes over 0-based i = k - 1 < position; quoteChar = ""
\* stands for insideQuotes = false
RECURSIVE QuoteScan(_, _, _, _)
QuoteScan(text, k, position, quoteChar) ==
    IF k > position THEN quoteChar # ""
    ELSE LET c == Char(text, k) IN
         IF c \in {"\"", "'"} /\ (k = 1 \/ Char(text, k - 1) # "\\")
         THEN IF quoteChar = "" THEN QuoteScan(text, k + 1, position, c)
              ELSE IF c = quoteChar THEN QuoteScan(text, k + 1, position, "")
              ELSE QuoteScan(text, k + 1, position, quoteChar)
         ELSE QuoteScan(text, k + 1, position, quoteChar)

\* position is the 0-based offset of the match
IsInsideQuotes(text, position) == QuoteScan(text, 1, position, "")

WordChars ==
    LET w == "abcdefghijklmnopqrstuvwxyzABCDEFGHIJKLMNOPQRSTUVWXYZ0123456789_"
    IN {Char(w, i) : i \in 1..Len(w)}

\* /^[\w\s\-_.,]+$/.test(content)
IsSimpleToken(content) ==
    /\ content # ""
    /\ \A i \in 1..Len(content) :
          Char(content, i) \in WordChars \cup {" ", "\n", "\t", "-", ".", ","}

\* the replace callbacks; line is the string replace() was called on, i and j
\* the positions of the opening and closing delimiter of the match
QuoteReplacement(kind, line, i, j) ==
    LET match == SubSeq(line, i, j)
        content == SubSeq(line, i + 1, j - 1)
        open == Char(line, i)
        close == Char(line, j)
        quoted == open \o "\"" \o EscapeContent(content) \o "\"" \o close
    IN IF IsInsideQuotes(line, i - 1) THEN match
       ELSE IF IsAlreadyQuoted(content) THEN match
       ELSE IF kind = "paren"
            THEN IF IsSimpleToken(content) /\ ~Includes(content, "\"")
                    /\ ~Includes(content, "'")
                 THEN quoted ELSE match
       ELSE quoted

\* line.replace(/open([^close]+)close/g, callback), scanning from position i
RECURSIVE QuoteGroups(_, _, _, _, _)
QuoteGroups(kind, line, i, open, close) ==
    IF i > Len(line) THEN ""
    ELSE LET j == IF Char(line, i) = open THEN IndexOfFrom(line, close, i + 1) ELSE 0
         IN IF j >= i + 2
            THEN QuoteReplacement(kind, line, i, j)
                 \o QuoteGroups(kind, line, j + 1, open, close)
            ELSE Char(line, i) \o QuoteGroups(kind, line, i + 1, open, close)

\* the body of lines.map: square brackets, parentheses, braces, edge labels
PreprocessLine(line) ==
    LET l1 == QuoteGroups("square", line, 1, "[", "]")
        l2 == QuoteGroups("paren", l1, 1, "(", ")")
        l3 == QuoteGroups("curly", l2, 1, "{", "}")
    IN QuoteGroups("pipe", l3, 1, "|", "|")

RECURSIVE MapLines(_)
MapLines(ls) == IF ls = <<>> THEN <<>> ELSE <<PreprocessLine(Head(ls))>> \o MapLines(Tail(ls))

PreprocessMermaidCode(code) ==
    JoinWith(MapLines(Split(ReplaceBr(code, 1), "\n")), "\n")

(***************************************************************************)
(* SpecMermaid: the preprocessor is run on a diagram description and then  *)
(* again on its own output.                                                *)
(***************************************************************************)
MaxFragments == 3
MaxRuns == 2

MermaidFragments ==
    {"A", " ", "-->", "[a b]", "[it's]", "[\"q\"]", "(x)", "(f\"g)", "{d?}", "|yes|",
     "\"", "<br/>"}

InitMermaid ==
    /\ mermaidCode \in {Concat(f) : f \in UNION {[1..n -> MermaidFragments] : n \in 0..MaxFragments}}
    /\ processed = mermaidCode
    /\ previous = mermaidCode
    /\ runs = 0
    /\ SegmentIdle
    /\ TableIdle
    /\ WalkerIdle
    /\ EngineIdle
    /\ ExtractionIdle
    /\ RetryIdle
    /\ OverlapIdle
    /\ SharedIdle
    /\ ProcessingIdle
    /\ StoreIdle
    /\ DocumentIdle

\* processed = preprocessMermaidCode(processed)
RunPreprocess ==
    /\ runs < MaxRuns
    /\ previous' = processed
    /\ processed' = PreprocessMermaidCode(processed)
    /\ runs' = runs + 1
    /\ UNCHANGED <<mermaidCode, segVars, tabVars, walkVars, engVars, capVars, retryVars, overlapVars,
                   sharedVars, procVars, storeVars, domVars>>

NextMermaid == RunPreprocess

SpecMermaid == InitMermaid /\ [][NextMermaid]_vars

\* C3 as stated: running the preprocessor on its own output changes nothing,
\* preprocessMermaidCode(preprocessMermaidCode(s)) = preprocessMermaidCode(s),
\* also on lines with several bracket groups and stray quote characters.
C3_Idempotent == runs = 2 => processed = previous

(***************************************************************************)
(* Table Formatter, part 1: convertHtmlTableToMarkdown and the row parser  *)
(* of createVisualTableElements (table module).                            *)
(***************************************************************************)
UpperLetters == "ABCDEFGHIJKLMNOPQRSTUVWXYZ"
LowerLetters == "abcdefghijklmnopqrstuvwxyz"

LowerChar(c) ==
    LET k == IndexOfFrom(UpperLetters, c, 1)
    IN IF k = 0 THEN c ELSE Char(LowerLetters, k)

\* the view of s the i flag of a regex compares
RECURSIVE LowerRange(_, _, _)
LowerRange(s, a, b) ==
    IF a > b THEN ""
    ELSE IF a = b THEN LowerChar(Char(s, a))
    ELSE LowerRange(s, a, (a + b) \div 2) \o LowerRange(s, (a + b) \div 2 + 1, b)

Lower(s) == LowerRange(s, 1, Len(s))

\* the smaller of two positions, 0 meaning "not found"
FirstFound(a, b) == IF a = 0 THEN b ELSE IF b = 0 THEN a ELSE Min(a, b)

\* .replace(/\s+/g, ' ')
RECURSIVE CollapseSpaces(_, _)
CollapseSpaces(s, i) ==
    IF i > Len(s) THEN ""
    ELSE IF IsSpace(Char(s, i)) THEN " " \o CollapseSpaces(s, SkipSpaces(s, i))
    ELSE Char(s, i) \o CollapseSpaces(s, i + 1)

\* lines 19-29: one cell's content
DecodeCell(raw) ==
    Trim(CollapseSpaces(
        ReplaceAll(ReplaceAll(ReplaceAll(ReplaceAll(ReplaceAll(ReplaceAll(Trim(raw),
            "&nbsp;", " "), "&amp;", "&"), "&lt;", "<"), "&gt;", ">"),
            "&quot;", "\""), "&#39;", "'"), 1))

\* cellRegex /<(?:th|td)>([\s\S]*?)<\/(?:th|td)>/gi over one row's content; low is
\* the content lower-cased, which is what the i flag compares
RECURSIVE HtmlCellsFrom(_, _, _)
HtmlCellsFrom(rowContent, low, from) ==
    LET i == FirstFound(IndexOfFrom(low, "<th>", from), IndexOfFrom(low, "<td>", from))
        j == IF i = 0 THEN 0
             ELSE FirstFound(IndexOfFrom(low, "</th>", i + 4), IndexOfFrom(low, "</td>", i + 4))
    IN IF i = 0 \/ j = 0 THEN <<>>
       ELSE <<DecodeCell(SubSeq(rowContent, i + 4, j - 1))>>
            \o HtmlCellsFrom(rowContent, low, j + 5)

HtmlCells(rowContent) == HtmlCellsFrom(rowContent, Lower(rowContent), 1)

\* rowRegex /<tr>([\s\S]*?)<\/tr>/gi; rows without a cell are dropped
RECURSIVE HtmlRowsFrom(_, _, _)
HtmlRowsFrom(html, low, from) ==
    LET i == IndexOfFrom(low, "<tr>", from)
        j == IF i = 0 THEN 0 ELSE IndexOfFrom(low, "</tr>", i + 4)
    IN IF i = 0 \/ j = 0 THEN <<>>
       ELSE LET cells == HtmlCells(SubSeq(html, i + 4, j - 1))
            IN (IF Len(cells) > 0 THEN <<cells>> ELSE <<>>) \o HtmlRowsFrom(html, low, j + 5)

HtmlRows(html) == HtmlRowsFrom(html, Lower(html), 1)

MarkdownRow(row) == "| " \o JoinWith(row, " | ") \o " |"

\* the separator is appended after the last row instead of spliced in at 1
MarkdownLinesSeparatorLast(rows) ==
    [k \in 1..Len(rows) |-> MarkdownRow(rows[k])]
    \o (IF Len(rows) >= 2
        THEN <<MarkdownRow([k \in 1..Len(rows[1]) |-> "---"])>> ELSE <<>>)

\* lines 41-49: markdownRows with the separator spliced in after row 0
MarkdownLines(rows) ==
    IF Len(rows) >= 2
    THEN <<MarkdownRow(rows[1]), MarkdownRow([k \in 1..Len(rows[1]) |-> "---"])>>
         \o [k \in 1..(Len(rows) - 1) |-> MarkdownRow(rows[k + 1])]
    ELSE [k \in 1..Len(rows) |-> MarkdownRow(rows[k])]

ConvertHtmlTableToMarkdown(htmlTableContent) ==
    LET rows == HtmlRows(htmlTableContent)
    IN IF Len(rows) = 0 THEN "" ELSE JoinWith(MarkdownLines(rows), "\n")

\* content.replace(/<[^>]*>/g, '')
RECURSIVE StripTags(_, _)
StripTags(s, i) ==
    IF i > Len(s) THEN ""
    ELSE LET k == IndexOfFrom(s, "<", i)
             j == IF k = 0 THEN 0 ELSE IndexOfFrom(s, ">", k + 1)
         IN IF j = 0 THEN SubSeq(s, i, Len(s))
            ELSE SubSeq(s, i, k - 1) \o StripTags(s, j + 1)

CleanCellContent(content) ==
    Trim(ReplaceAll(ReplaceAll(ReplaceAll(ReplaceAll(ReplaceAll(StripTags(content, 1),
        "&lt;", "<"), "&gt;", ">"), "&quot;", "\""), "&#39;", "'"), "&amp;", "&"))

RECURSIVE SelectLines(_)
SelectLines(ls) ==
    IF ls = <<>> THEN <<>>
    ELSE (IF Trim(Head(ls)) # "" THEN <<Head(ls)>> ELSE <<>>) \o SelectLines(Tail(ls))

\* line 59
TableLines(tableMarkdown) == SelectLines(Split(Trim(tableMarkdown), "\n"))

\* line.split('|').slice(1, -1).map(cleanCellContent)
PipeCells(line) ==
    LET f == Split(line, "|")
    IN [k \in 1..(Len(f) - 2) |-> CleanCellContent(f[k + 1])]

\* /^-+$/.test(cell)
IsDashes(cell) == cell # "" /\ \A i \in 1..Len(cell) : Char(cell, i) = "-"

\* line.split(/\s{2,}|\t|,/)
RECURSIVE SplitPlain(_, _, _)
SplitPlain(line, i, cur) ==
    IF i > Len(line) THEN <<cur>>
    ELSE LET c == Char(line, i)
             e == SkipSpaces(line, i)
         IN IF e >= i + 2 THEN <<cur>> \o SplitPlain(line, e, "")
            ELSE IF c = "\t" \/ c = "," THEN <<cur>> \o SplitPlain(line, i + 1, "")
            ELSE SplitPlain(line, i + 1, cur \o c)

RECURSIVE CleanNonBlank(_)
CleanNonBlank(cells) ==
    IF cells = <<>> THEN <<>>
    ELSE (IF Trim(Head(cells)) # "" THEN <<CleanCellContent(Head(cells))>> ELSE <<>>)
         \o CleanNonBlank(Tail(cells))

PlainCells(line) == CleanNonBlank(SplitPlain(line, 1, ""))

RemoveAt(seq, k) == [i \in 1..(Len(seq) - 1) |-> IF i < k THEN seq[i] ELSE seq[i + 1]]

\* lines 75-92: the TableGrid parsed from the lines
ParseTableRows(tableMarkdown) ==
    LET lines == TableLines(tableMarkdown) IN
    IF Includes(tableMarkdown, "|")
    THEN LET rows == [k \in 1..Len(lines) |-> PipeCells(lines[k])]
         IN IF Len(rows) > 1 /\ \A c \in 1..Len(rows[2]) : IsDashes(rows[2][c])
            THEN RemoveAt(rows, 2) ELSE rows
    ELSE [k \in 1..Len(lines) |-> PlainCells(lines[k])]

(***************************************************************************)
(* Table Formatter, part 2: column widths, wrapping, row heights and the   *)
(* emitted primitives of createVisualTableElements.  Pixel values that the *)
(* source computes in doubles are computed here in exact integers.         *)
(***************************************************************************)
maxColWidth == 600
minColWidth == 150
maxTotalWidth == 1400
baseRowHeight == 60
HeaderFontSize == 20
BodyFontSize == 16

CeilDiv(a, b) == (a + b - 1) \div b

RowFontSize(rowIndex) == IF rowIndex = 1 THEN HeaderFontSize ELSE BodyFontSize

\* Math.ceil(textWidth + padding) with avgCharWidth = 0.8 * fontSize and
\* padding = max(50, 0.6 * textWidth), in hundredths of a pixel
GetTextWidth(text, fontSize) ==
    IF text = "" THEN 150
    ELSE LET textWidth == Len(text) * fontSize * 80
         IN CeilDiv(textWidth + Max(5000, (textWidth * 6) \div 10), 100)

RECURSIVE SumSeq(_)
SumSeq(q) == IF q = <<>> THEN 0 ELSE Head(q) + SumSeq(Tail(q))

\* lines 160-169: the widest cell of each column, rows[0] giving the columns
RawColWidths(rows) ==
    LET numCols == Len(rows[1])
        cellsOf(j) == {GetTextWidth(rows[r][j], RowFontSize(r)) :
                          r \in {r \in 1..Len(rows) : j <= Len(rows[r])}}
    IN [j \in 1..numCols |-> CHOOSE w \in cellsOf(j) \cup {0} :
                                 \A v \in cellsOf(j) \cup {0} : w >= v]

\* the (width, totalWidth) pairs, totalWidth <= 3600, for which the double
\* product width * (1400 / totalWidth) falls just below its exact integer value,
\* so that Math.floor returns one less
ScaleRoundsDown ==
    {<<553, 1580>>, <<290, 1624>>, <<551, 1624>>, <<580, 1624>>, <<155, 1736>>,
     <<310, 1736>>, <<589, 1736>>, <<284, 1775>>, <<568, 1775>>, <<355, 1988>>,
     <<170, 2000>>, <<180, 2000>>, <<330, 2000>>, <<340, 2000>>, <<350, 2000>>,
     <<360, 2000>>, <<303, 2020>>, <<289, 2023>>, <<578, 2023>>, <<166, 2075>>,
     <<332, 2075>>, <<183, 2135>>, <<305, 2135>>, <<366, 2135>>, <<161, 2254>>,
     <<322, 2254>>, <<167, 2338>>, <<334, 2338>>, <<201, 2345>>, <<335, 2345>>,
     <<402, 2345>>, <<589, 2356>>, <<337, 2359>>, <<190, 2375>>, <<285, 2375>>,
     <<380, 2375>>, <<570, 2375>>, <<597, 2388>>, <<363, 2420>>, <<194, 2425>>,
     <<291, 2425>>, <<388, 2425>>, <<582, 2425>>, <<435, 2436>>, <<316, 2528>>,
     <<321, 2568>>, <<369, 2583>>, <<371, 2597>>, <<465, 2604>>, <<214, 2675>>,
     <<321, 2675>>, <<428, 2675>>, <<201, 2680>>, <<335, 2680>>, <<402, 2680>>,
     <<469, 2680>>, <<154, 2695>>, <<231, 2695>>, <<308, 2695>>, <<385, 2695>>,
     <<462, 2695>>, <<193, 2702>>, <<386, 2702>>, <<387, 2709>>, <<339, 2712>>,
     <<194, 2716>>, <<291, 2716>>, <<388, 2716>>, <<485, 2716>>, <<582, 2716>>,
     <<204, 2720>>, <<340, 2720>>, <<408, 2720>>, <<476, 2720>>, <<195, 2730>>,
     <<234, 2730>>, <<351, 2730>>, <<390, 2730>>, <<429, 2730>>, <<468, 2730>>,
     <<165, 2750>>, <<220, 2750>>, <<275, 2750>>, <<330, 2750>>, <<385, 2750>>,
     <<440, 2750>>, <<495, 2750>>, <<550, 2750>>, <<222, 2775>>, <<333, 2775>>,
     <<444, 2775>>, <<199, 2786>>, <<398, 2786>>, <<553, 3160>>, <<290, 3248>>,
     <<580, 3248>>, <<310, 3472>>, <<284, 3550>>, <<568, 3550>>}

\* Math.floor(width * scaleFactor), scaleFactor = maxTotalWidth / totalWidth
ScaleWidth(width, totalWidth) ==
    (width * maxTotalWidth) \div totalWidth
        - (IF <<width, totalWidth>> \in ScaleRoundsDown THEN 1 ELSE 0)

\* the second pass without the Math.max(minColWidth, ...) floor
ScaledWidthsNoFloor(clamped) ==
    LET totalWidth == SumSeq(clamped)
    IN IF totalWidth > maxTotalWidth
       THEN [j \in 1..Len(clamped) |-> ScaleWidth(clamped[j], totalWidth)]
       ELSE clamped

\* lines 181-188: the second pass
ScaledWidths(clamped) ==
    LET totalWidth == SumSeq(clamped)
    IN IF totalWidth > maxTotalWidth
       THEN [j \in 1..Len(clamped) |->
                Max(minColWidth, ScaleWidth(clamped[j], totalWidth))]
       ELSE clamped

\* lines 176-179: the first pass
ClampedWidths(raw) ==
    [j \in 1..Len(raw) |-> Max(minColWidth, Min(maxColWidth, raw[j]))]

ColWidths(rows) == ScaledWidths(ClampedWidths(RawColWidths(rows)))

\* the for loop of wrapText over the words; lines is the array built so far
RECURSIVE WrapWords(_, _, _, _)
WrapWords(words, currentLine, lines, maxCharsPerLine) ==
    IF words = <<>>
    THEN IF currentLine # "" THEN Append(lines, currentLine) ELSE lines
    ELSE LET word == Head(words)
             testLine == IF currentLine # "" THEN currentLine \o " " \o word ELSE word
         IN IF Len(testLine) <= maxCharsPerLine
            THEN WrapWords(Tail(words), testLine, lines, maxCharsPerLine)
            ELSE IF currentLine # ""
                 THEN WrapWords(Tail(words), word, Append(lines, currentLine),
                                maxCharsPerLine)
            ELSE IF Len(word) > maxCharsPerLine
                 THEN WrapWords(Tail(words),
                                SubSeq(word, maxCharsPerLine + 1, Len(word)),
                                Append(lines, SubSeq(word, 1, maxCharsPerLine)),
                                maxCharsPerLine)
            ELSE WrapWords(Tail(words), word, lines, maxCharsPerLine)

\* Math.floor((maxWidth - 20) / (fontSize * 0.6))
MaxCharsPerLine(maxWidth, fontSize) == ((maxWidth - 20) * 10) \div (fontSize * 6)

\* wrapText as the lines it joins with '\n' (<<"">>: the empty string)
WrapLines(text, maxWidth, fontSize) ==
    IF text = "" THEN <<"">>
    ELSE IF Len(text) <= MaxCharsPerLine(maxWidth, fontSize) THEN <<text>>
    ELSE LET ls == WrapWords(Split(text, " "), "", <<>>, MaxCharsPerLine(maxWidth, fontSize))
         IN IF ls = <<>> THEN <<"">> ELSE ls

WrapText(text, maxWidth, fontSize) == JoinWith(WrapLines(text, maxWidth, fontSize), "\n")

\* wrappedText.split('\n').length
LineCount(text, maxWidth, fontSize) == Len(Split(WrapText(text, maxWidth, fontSize), "\n"))

\* lines 199-210 for one cell; lineHeight = fontSize * 1.25
CellHeight(cell, colWidth, fontSize) ==
    Max(baseRowHeight, LineCount(cell, colWidth, fontSize) * ((fontSize * 5) \div 4) + 20)

\* lines 194-213
RowHeights(rows, colWidths) ==
    LET numCols == Len(rows[1]) IN
    [r \in 1..Len(rows) |->
        LET hs == {CellHeight(rows[r][j], colWidths[j], RowFontSize(r)) :
                      j \in 1..Min(Len(rows[r]), numCols)} \cup {baseRowHeight}
        IN CHOOSE h \in hs : \A v \in hs : h >= v]

\* every row placed at the table's top
RowYPositionsFlat(rowHeights, cumulativeY) == [r \in 1..Len(rowHeights) |-> cumulativeY]

\* lines 216-221
RECURSIVE RowYPositions(_, _)
RowYPositions(rowHeights, cumulativeY) ==
    IF rowHeights = <<>> THEN <<>>
    ELSE <<cumulativeY>> \o RowYPositions(Tail(rowHeights), cumulativeY + Head(rowHeights))

CellStroke == "#1e1e1e"

\* lines 229-311 for one cell: the rectangle and the centred text (centre and
\* text height are kept to the whole pixel below)
CellPrims(cell, r, j, x, y, colWidth, rowHeight) ==
    LET fontSize == RowFontSize(r)
        suffix == ToString(r - 1) \o "-" \o ToString(j - 1)
    IN <<Prim("rectangle", "table-cell-" \o suffix, x, y, colWidth, rowHeight, "", 0,
              CellStroke),
         Prim("text", "table-text-" \o suffix, x + colWidth \div 2, y + rowHeight \div 2,
              colWidth - 20,
              (fontSize * 12 * LineCount(cell, colWidth, fontSize)) \div 10,
              WrapText(cell, colWidth, fontSize), fontSize, CellStroke)>>

\* a row whose cells all start at the row's left edge
RECURSIVE RowPrimsNoAdvance(_, _, _, _, _, _, _)
RowPrimsNoAdvance(row, r, j, currentX, y, colWidths, rowHeight) ==
    IF j > Len(row) \/ j > Len(colWidths) THEN <<>>
    ELSE CellPrims(row[j], r, j, currentX, y, colWidths[j], rowHeight)
         \o RowPrimsNoAdvance(row, r, j + 1, currentX, y, colWidths, rowHeight)

\* the inner forEach of lines 229-311; currentX advances by the column width
RECURSIVE RowPrims(_, _, _, _, _, _, _)
RowPrims(row, r, j, currentX, y, colWidths, rowHeight) ==
    IF j > Len(row) \/ j > Len(colWidths) THEN <<>>
    ELSE CellPrims(row[j], r, j, currentX, y, colWidths[j], rowHeight)
         \o RowPrims(row, r, j + 1, currentX + colWidths[j], y, colWidths, rowHeight)

\* lines 59-94: the rows the layout works on, none for fewer than two lines
TableGrid(tableMarkdown) ==
    IF Len(TableLines(tableMarkdown)) < 2 THEN <<>> ELSE ParseTableRows(tableMarkdown)

\* lines 224-312: the second pass over the rows
PlaceRows(rows, colWidths, rowHeights, rowYPositions, startX) ==
    FlatSeq([r \in 1..Len(rows) |->
        RowPrims(rows[r], r, 1, startX, rowYPositions[r], colWidths, rowHeights[r])])

\* lines 190-312: row heights, row positions, primitives
LayOutRows(rows, colWidths, rowHeights, startX, startY) ==
    PlaceRows(rows, colWidths, rowHeights, RowYPositions(rowHeights, startY), startX)

\* lines 94-312: the layout of a parsed grid
LayOutGrid(rows, colWidths, startX, startY) ==
    IF Len(rows) = 0 THEN <<>>
    ELSE LayOutRows(rows, colWidths, RowHeights(rows, colWidths), startX, startY)

\* the column widths of a grid, none for the empty grid
GridColWidths(rows) == IF Len(rows) = 0 THEN <<>> ELSE ColWidths(rows)

LayOutTable(rows, startX, startY) == LayOutGrid(rows, GridColWidths(rows), startX, startY)

CreateVisualTableElements(tableMarkdown, startX, startY) ==
    LayOutTable(TableGrid(tableMarkdown), startX, startY)

(***************************************************************************)
(* SpecSegment: a blob is assembled from fragments, then segmented by the  *)
(* paragraph branch's loop and handed to processTextWithLatex.             *)
(***************************************************************************)
MaxPieces == 3

TextBodies == {"a", " ", "\n"}
MarkerBodies == {"E", " F "}

Pieces ==
    {[kind |-> "text", body |-> b] : b \in TextBodies}
    \cup {[kind |-> "marker", body |-> b] : b \in MarkerBodies}
    \cup {[kind |-> "stray", body |-> OpenTag]}

PieceText(p) == IF p.kind = "marker" THEN OpenTag \o p.body \o CloseTag ELSE p.body

RECURSIVE BlobOf(_)
BlobOf(ps) == IF ps = <<>> THEN "" ELSE PieceText(Head(ps)) \o BlobOf(Tail(ps))

InitSegment ==
    /\ pieces \in UNION {[1..n -> Pieces] : n \in 0..MaxPieces}
    /\ textContent = BlobOf(pieces)
    /\ parts = <<>>
    /\ segResult = SegIdle
    /\ segPc = "input"
    /\ MermaidIdle
    /\ TableIdle
    /\ WalkerIdle
    /\ EngineIdle
    /\ ExtractionIdle
    /\ RetryIdle
    /\ OverlapIdle
    /\ SharedIdle
    /\ ProcessingIdle
    /\ StoreIdle
    /\ DocumentIdle

\* traverse, paragraph branch: a text child's value is cut into parts
SegmentParagraphText ==
    /\ segPc = "input"
    /\ parts' = ParagraphTextParts(textContent)
    /\ segPc' = "segmented"
    /\ UNCHANGED <<pieces, textContent, segResult, merVars, tabVars, walkVars, engVars, capVars, retryVars, overlapVars,
                   sharedVars, procVars, storeVars, domVars>>

\* processTextWithLatex(textContent, 0, 0, 0, api)
CallProcessTextWithLatex ==
    /\ segPc = "segmented"
    /\ \E oracle \in [1..NumLatex(LatexSegments(textContent)) -> LatexOutcomes] :
          segResult' = ProcessTextWithLatex(textContent, 0, 0, 0, oracle)
    /\ segPc' = "done"
    /\ UNCHANGED <<pieces, textContent, parts, merVars, tabVars, walkVars, engVars, capVars, retryVars, overlapVars,
                   sharedVars, procVars, storeVars, domVars>>

NextSegment == SegmentParagraphText \/ CallProcessTextWithLatex

SpecSegment == InitSegment /\ [][NextSegment]_vars

(***************************************************************************)
(* Claims about the segmenter.                                             *)
(***************************************************************************)
\* every equation marker of the blob is a whole marker fragment
WellFormed(ps) == \A i \in 1..Len(ps) : ps[i].kind # "stray"

NumMarkers(ps) == Cardinality({i \in 1..Len(ps) : ps[i].kind = "marker"})

\* the segmentation read off the construction of the blob: the text between
\* two markers is one text segment when it is non-empty, none otherwise
RECURSIVE ExpectedParts(_, _)
ExpectedParts(ps, pending) ==
    LET flush == IF pending # "" THEN <<TextPart(pending)>> ELSE <<>> IN
    IF ps = <<>> THEN flush
    ELSE IF Head(ps).kind = "marker"
         THEN flush \o <<LatexPart(Trim(Head(ps).body))>> \o ExpectedParts(Tail(ps), "")
    ELSE ExpectedParts(Tail(ps), pending \o Head(ps).body)

Alternating(ps) ==
    \A i \in 1..Len(ps) : ps[i].type = (IF i % 2 = 1 THEN "text" ELSE "latex")

NoMarkers(ps) == \A i \in 1..Len(ps) : ps[i].kind # "marker"

\* C9 as stated: a blob without markers, the empty and the whitespace-only blob
\* included, gives exactly one segment, of kind text, holding the original or
\* the trimmed input.
C9_NoMarker_Original ==
    (segPc # "input" /\ NoMarkers(pieces)) =>
        /\ Len(parts) = 1
        /\ parts[1].type = "text"
        /\ parts[1].content \in {textContent, Trim(textContent)}

\* C9 amended: a non-empty blob without markers gives exactly one segment, of
\* kind text, holding the original (untrimmed) input; the empty blob gives no
\* segment; processTextWithLatex emits one text primitive carrying the
\* original blob and advances by 30, except for an empty or whitespace-only
\* blob, for which it emits nothing and does not advance.
C9_NoMarker ==
    /\ (segPc # "input" /\ NoMarkers(pieces)) =>
          IF textContent = "" THEN parts = <<>>
          ELSE parts = <<TextPart(textContent)>>
    /\ (segPc = "done" /\ NoMarkers(pieces)) =>
          IF Trim(textContent) = ""
          THEN segResult.elements = <<>> /\ segResult.newY = 0
          ELSE /\ Len(segResult.elements) = 1
               /\ segResult.elements[1].type = "text"
               /\ segResult.elements[1].text = textContent
               /\ segResult.newY = 30

\* a whitespace-only blob without markers went through both functions
C9_Witness ==
    /\ segPc = "done"
    /\ NoMarkers(pieces)
    /\ textContent = " \n"
    /\ parts = <<TextPart(" \n")>>
    /\ segResult.elements = <<>>

(***************************************************************************)
(* SpecTable: a table arrives as HTML markup, converted to markdown first, *)
(* or as a table node whose rows are joined into markdown, and is laid out *)
(* by createVisualTableElements.                                           *)
(***************************************************************************)
MaxHtmlRows == 3
MaxCols == 4

\* rows of plain cells: no pipe character, tag or entity
HtmlRowChoices ==
    {<<"A", "B">>, <<"1", "2">>, <<" x ", "">>, <<"a  b", "c">>, <<"-", "--">>,
     <<"only">>, <<"p", "q", "r">>}

HeaderCells == {"", "Region names", "Quarterly revenue totals"}

LongCell == "north south east west north south"

\* a short word, then one word of 66 characters
LongWordCell == "a pneumonoultramicroscopicsilicovolcanoconiosis-supercalifragilistic"

\* the body rows tried under a header of c columns
BodyChoices(c) ==
    {<<>>, <<[j \in 1..c |-> "1"]>>, <<[j \in 1..c |-> "1"], <<LongCell>>>>,
     <<[j \in 1..c |-> "1"], [j \in 1..c |-> "x y"]>>, <<[j \in 1..c |-> "-"]>>}

TableSources ==
    {[kind |-> "html", rows |-> rs] :
        rs \in UNION {[1..n -> HtmlRowChoices] : n \in 2..MaxHtmlRows}}
    \cup UNION {{[kind |-> "node", rows |-> <<h>> \o b] : b \in BodyChoices(Len(h))} :
                  h \in UNION {[1..c -> HeaderCells] : c \in 1..MaxCols}}
    \cup {[kind |-> "node", rows |-> <<<<"Term">>, <<LongWordCell>>>>]}

\* the markup of a table: header cells in <th>, the others in <td>
HtmlRowMarkup(row, tag) ==
    "<tr>" \o Concat([j \in 1..Len(row) |->
                         "<" \o tag \o ">" \o row[j] \o "</" \o tag \o ">"]) \o "</tr>"

TableHtml(rows) ==
    "<table>" \o Concat([r \in 1..Len(rows) |->
                            HtmlRowMarkup(rows[r], IF r = 1 THEN "th" ELSE "td")])
              \o "</table>"

\* traverse, table branch: tableRows.map(row => '| ' + row.join(' | ') + ' |').join('\n')
TableNodeMarkdown(tableRows) ==
    JoinWith([k \in 1..Len(tableRows) |-> MarkdownRow(tableRows[k])], "\n")

TableOrigins == {<<50, 100>>, <<70, 0>>}

InitTable ==
    /\ tabSource \in TableSources
    /\ tabMarkdown = ""
    /\ tabRows = <<>>
    /\ tabColWidths = <<>>
    /\ tabElements = <<>>
    /\ tabPc = "input"
    /\ SegmentIdle
    /\ MermaidIdle
    /\ WalkerIdle
    /\ EngineIdle
    /\ ExtractionIdle
    /\ RetryIdle
    /\ OverlapIdle
    /\ SharedIdle
    /\ ProcessingIdle
    /\ StoreIdle
    /\ DocumentIdle

\* tableMarkdown = convertHtmlTableToMarkdown(htmlContent)
ConvertHtml ==
    /\ tabPc = "input"
    /\ tabSource.kind = "html"
    /\ tabMarkdown' = ConvertHtmlTableToMarkdown(TableHtml(tabSource.rows))
    /\ tabPc' = "markdown"
    /\ UNCHANGED <<tabSource, tabRows, tabColWidths, tabElements, segVars, merVars, walkVars, engVars, capVars, retryVars, overlapVars,
                   sharedVars, procVars, storeVars, domVars>>

\* the table branch builds the markdown from the node's rows
BuildTableMarkdown ==
    /\ tabPc = "input"
    /\ tabSource.kind = "node"
    /\ tabMarkdown' = TableNodeMarkdown(tabSource.rows)
    /\ tabPc' = "markdown"
    /\ UNCHANGED <<tabSource, tabRows, tabColWidths, tabElements, segVars, merVars, walkVars, engVars, capVars, retryVars, overlapVars,
                   sharedVars, procVars, storeVars, domVars>>

\* createVisualTableElements(tableMarkdown, startX, startY); rows and colWidths
\* are its locals
CallCreateVisualTableElements ==
    /\ tabPc = "markdown"
    /\ tabRows' = TableGrid(tabMarkdown)
    /\ tabColWidths' = GridColWidths(tabRows')
    /\ \E o \in TableOrigins :
          tabElements' = CreateVisualTableElements(tabMarkdown, o[1], o[2])
    /\ tabPc' = "done"
    /\ UNCHANGED <<tabSource, tabMarkdown, segVars, merVars, walkVars, engVars, capVars, retryVars, overlapVars,
                   sharedVars, procVars, storeVars, domVars>>

NextTable == ConvertHtml \/ BuildTableMarkdown \/ CallCreateVisualTableElements

SpecTable == InitTable /\ [][NextTable]_vars

(***************************************************************************)
(* Claims on the table formatter (checked under SpecTable).                *)
(***************************************************************************)
WidthsWithinBounds ==
    \A j \in 1..Len(tabColWidths) :
        minColWidth <= tabColWidths[j] /\ tabColWidths[j] <= maxColWidth

\* the widths after the first pass, before scaling
FirstPassWidths == ClampedWidths(RawColWidths(tabRows))

LaidOut == tabPc = "done" /\ Len(tabRows) > 0

\* C4 as stated: after clamping and scaling every column width is within
\* [minColWidth, maxColWidth] and the widths sum to at most maxTotalWidth.
C4_ColumnWidthBounds_Original ==
    LaidOut => WidthsWithinBounds /\ SumSeq(tabColWidths) <= maxTotalWidth

\* C4: every column width is within [minColWidth, maxColWidth]; the widths sum to
\* at most maxTotalWidth unless the scaling pass holds some column at
\* minColWidth, and then the sum is still no more than before scaling.
C4_ColumnWidthBounds ==
    LaidOut =>
        /\ WidthsWithinBounds
        /\ \/ SumSeq(tabColWidths) <= maxTotalWidth
           \/ \E j \in 1..Len(tabColWidths) : tabColWidths[j] = minColWidth
        /\ SumSeq(tabColWidths) <= SumSeq(FirstPassWidths)
        /\ SumSeq(FirstPassWidths) <= maxTotalWidth => tabColWidths = FirstPassWidths

\* a table whose first-pass widths exceed maxTotalWidth: one column is scaled
\* down, another is held at minColWidth
C4_Witness ==
    /\ LaidOut
    /\ SumSeq(FirstPassWidths) > maxTotalWidth
    /\ \E j \in 1..Len(tabColWidths) :
          tabColWidths[j] < FirstPassWidths[j] /\ tabColWidths[j] > minColWidth
    /\ \E j \in 1..Len(tabColWidths) : tabColWidths[j] = minColWidth
    /\ C4_ColumnWidthBounds

\* the maximal runs of non-space characters of a cell
RECURSIVE WordsFrom(_, _)
WordsFrom(s, i) ==
    IF i > Len(s) THEN <<>>
    ELSE IF IsSpace(Char(s, i)) THEN WordsFrom(s, i + 1)
    ELSE LET ends == {k \in i..Len(s) : k = Len(s) \/ IsSpace(Char(s, k + 1))}
             e == CHOOSE k \in ends : \A m \in ends : k <= m
         IN <<SubSeq(s, i, e)>> \o WordsFrom(s, e + 1)

\* a cell with its whitespace runs collapsed to one space and its ends trimmed
Collapsed(cell) == JoinWith(WordsFrom(cell, 1), " ")

FromHtml == tabSource.kind = "html" /\ tabPc = "done"

\* C10 as stated: parsing convertHtmlTableToMarkdown(html) gives back the rows of
\* trimmed cell strings, the inserted separator row discarded, no data row lost.
C10_RoundTrip_Original ==
    FromHtml =>
        tabRows = [r \in 1..Len(tabSource.rows) |->
                      [j \in 1..Len(tabSource.rows[r]) |-> Trim(tabSource.rows[r][j])]]

\* C10: parsing convertHtmlTableToMarkdown(html) gives back the rows with every
\* cell trimmed and its inner whitespace runs collapsed to one space; the one
\* inserted separator row is discarded and no data row is lost.
C10_RoundTrip ==
    FromHtml =>
        /\ tabRows = [r \in 1..Len(tabSource.rows) |->
                         [j \in 1..Len(tabSource.rows[r]) |->
                             Collapsed(tabSource.rows[r][j])]]
        /\ Len(TableLines(tabMarkdown)) = Len(tabSource.rows) + 1
        /\ TableLines(tabMarkdown)[2]
               = MarkdownRow([j \in 1..Len(tabSource.rows[1]) |-> "---"])

\* three rows come back, among them a data row of dashes, a padded cell trimmed
\* and a cell whose inner blanks were collapsed
C10_Witness ==
    /\ FromHtml
    /\ Len(tabSource.rows) = 3
    /\ tabSource.rows[2] = <<"-", "--">>
    /\ tabSource.rows[3] = <<" x ", "">>
    /\ tabRows = <<tabSource.rows[1], <<"-", "--">>, <<"x", "">>>>
    /\ tabSource.rows[1] = <<"A", "B">>

\* a table node's markdown has been laid out
NodeTable == tabSource.kind = "node" /\ tabPc = "done"

Rectangular(tableRows) == \A r \in 1..Len(tableRows) : Len(tableRows[r]) = Len(tableRows[1])

\* the second row is not taken for a separator row
NoSeparatorRow(tableRows) ==
    ~(Len(tableRows) > 1 /\ \A j \in 1..Len(tableRows[2]) : IsDashes(Trim(tableRows[2][j])))

\* the rectangle and the text of the cell in row r, column j, in emission order
RectOf(r, j) == tabElements[2 * ((r - 1) * Len(tabSource.rows[1]) + (j - 1)) + 1]
TextOf(r, j) == tabElements[2 * ((r - 1) * Len(tabSource.rows[1]) + (j - 1)) + 2]

GridOfCells ==
    /\ NodeTable
    /\ Len(tabSource.rows) >= 2
    /\ Rectangular(tabSource.rows)
    /\ NoSeparatorRow(tabSource.rows)

\* C11: for the markdown the table branch builds from R >= 2 rows of C cells,
\* none of them a separator row, createVisualTableElements yields exactly R*C
\* rectangles and R*C texts, cell by cell in row order; the rectangles of one
\* row share one Y and each later row's Y is strictly greater.
C11_TableGrid ==
    GridOfCells =>
        LET R == Len(tabSource.rows)
            C == Len(tabSource.rows[1])
        IN /\ Len(tabElements) = 2 * R * C
           /\ Cardinality({k \in 1..Len(tabElements) : tabElements[k].type = "rectangle"})
                 = R * C
           /\ Cardinality({k \in 1..Len(tabElements) : tabElements[k].type = "text"})
                 = R * C
           /\ \A r \in 1..R : \A j \in 1..C :
                 /\ RectOf(r, j).type = "rectangle"
                 /\ TextOf(r, j).type = "text"
                 /\ RectOf(r, j).y = RectOf(r, 1).y
           /\ \A r \in 1..(R - 1) : RectOf(r, 1).y < RectOf(r + 1, 1).y

\* a table of three rows and two columns has been laid out
C11_Witness ==
    /\ GridOfCells
    /\ Len(tabSource.rows) = 3
    /\ Len(tabSource.rows[1]) = 2
    /\ Len(tabElements) = 12
    /\ RectOf(3, 2).y > RectOf(2, 1).y

\* the rectangles emitted for the cell in row r, column j
CellId(r, j) == "table-cell-" \o ToString(r - 1) \o "-" \o ToString(j - 1)

RectAt(r, j) ==
    {tabElements[k] : k \in {n \in 1..Len(tabElements) :
                                /\ tabElements[n].type = "rectangle"
                                /\ tabElements[n].id = CellId(r, j)}}

GridRows == 1..Len(tabRows)
GridCols == 1..Len(tabColWidths)

\* a row of the grid with fewer or more cells than the first row
Ragged == \E r \in GridRows : Len(tabRows[r]) # Len(tabRows[1])

\* C21: uniform table grid: in the output of createVisualTableElements all
\* rectangles of column j have the same x and the same width, all rectangles
\* of row i the same y and the same height, column j+1 starts at the x of
\* column j plus its width, row i+1 starts at the y of row i plus row i's
\* height, and the first row starts at the origin, also for ragged rows
C21_UniformGrid ==
    tabPc = "done" =>
        /\ \A k \in 1..Len(tabElements) :
               tabElements[k].type = "rectangle" =>
                   \E r \in GridRows, j \in GridCols : tabElements[k] \in RectAt(r, j)
        /\ \A r \in GridRows, j \in GridCols : \A e \in RectAt(r, j) :
               /\ \A r2 \in GridRows : \A f \in RectAt(r2, j) :
                      f.x = e.x /\ f.width = e.width
               /\ \A j2 \in GridCols : \A f \in RectAt(r, j2) :
                      f.y = e.y /\ f.height = e.height
               /\ \A f \in RectAt(r, j + 1) : f.x = e.x + e.width
               /\ \A j2 \in GridCols : \A f \in RectAt(r + 1, j2) :
                      f.y = e.y + e.height
               /\ r = 1 /\ j = 1 => <<e.x, e.y>> \in TableOrigins

\* a ragged grid has been laid out: three rows, the second shorter than the
\* first, and a rectangle in the third row below it
C21_Witness ==
    /\ tabPc = "done"
    /\ Ragged
    /\ Len(tabRows) = 3
    /\ Len(tabRows[2]) < Len(tabRows[1])
    /\ RectAt(2, 1) # {}
    /\ RectAt(2, Len(tabRows[1])) = {}
    /\ \E e \in RectAt(3, 1) : \E f \in RectAt(2, 1) : e.y = f.y + f.height

\* the characters wrapText allows on a line of a cell's text: the text
\* primitive is 20 narrower than its column
LineLimit(e) == MaxCharsPerLine(e.width + 20, e.fontSize)

\* C22: wrapped lines fit the column: for every cell text, column width in
\* [150, 600] and font size in {16, 20}, every line of wrapText has at most
\* floor((w - 20) / (0.6 * f)) characters; overlong words are split so that
\* no emitted line exceeds the limit
C22_WrappedLinesFit ==
    tabPc = "done" =>
        \A k \in 1..Len(tabElements) :
            tabElements[k].type = "text" =>
                /\ tabElements[k].width + 20 \in minColWidth..maxColWidth
                /\ tabElements[k].fontSize \in {BodyFontSize, HeaderFontSize}
                /\ \A n \in 1..Len(Split(tabElements[k].text, "\n")) :
                       Len(Split(tabElements[k].text, "\n")[n]) <= LineLimit(tabElements[k])

(***************************************************************************)
(* Document Walker, part 1: the document tree and the leaf handlers of     *)
(* traverse.  A handler's effect is a Step: the primitives it pushes, the  *)
(* cursor it leaves, the file data it hands to addFiles and the calls it   *)
(* makes.                                                                  *)
(***************************************************************************)
\* node.parent as the list item branch reads it: absent, or a list with its
\* ordered flag and its start (<<>>: null, <<n>>: the number n)
NoParent == [present |-> FALSE, ordered |-> FALSE, start |-> <<>>]
ListParent(ordered, start) == [present |-> TRUE, ordered |-> ordered, start |-> start]

Node(type, depth, value, children) ==
    [type |-> type, depth |-> depth, value |-> value, children |-> children,
     parent |-> NoParent]

Text(value) == Node("text", 0, value, <<>>)
Html(value) == Node("html", 0, value, <<>>)
Heading(depth, value) == Node("heading", depth, "", <<Text(value)>>)
Paragraph(children) == Node("paragraph", 0, "", children)
Strong(value) == Node("strong", 0, "", <<Text(value)>>)
ListItem(value) == Node("listItem", 0, "", <<Paragraph(<<Text(value)>>)>>)
ListItemOf(value, parent) == [ListItem(value) EXCEPT !.parent = parent]
Container(type, children) == Node(type, 0, "", children)
TableNode(tableRows) ==
    Node("table", 0, "",
         [r \in 1..Len(tableRows) |->
             Node("tableRow", 0, "",
                  [j \in 1..Len(tableRows[r]) |->
                      Node("tableCell", 0, "", <<Text(tableRows[r][j])>>)])])

RECURSIVE GetText(_)
GetText(node) ==
    IF node.value # "" THEN node.value
    ELSE Concat([k \in 1..Len(node.children) |-> GetText(node.children[k])])

RECURSIVE CollectAllText(_)
CollectAllText(node) ==
    IF node.type = "text" THEN node.value
    ELSE Concat([k \in 1..Len(node.children) |-> CollectAllText(node.children[k])])

\* one call made while a node is handled: the callee and what came of it
Call(fn, outcome) == [fn |-> fn, outcome |-> outcome]

\* what a handler does: the primitives it pushes, the cursor it leaves, the
\* files it registers, the calls it made, and whether an exception left it
\* (every try of traverse has a catch, so no handler lets one out)
Step(pushed, newY, newFiles, made) ==
    [pushed |-> pushed, newY |-> newY, newFiles |-> newFiles, made |-> made,
     thrown |-> FALSE]

\* startX + depth * 20
IndentX(startX, depth) == startX + depth * 20

\* a heading whose font size is not held at 12
HeadingStepUnclamped(node, x, y) ==
    LET fontSize == 20 - node.depth * 2
    IN Step(<<Prim("text", "heading", x, y, 200, fontSize + 10, GetText(node),
                   fontSize, Black)>>,
            y + fontSize + 20, <<>>, <<>>)

\* heading, lines 343-376
HeadingStep(node, x, y) ==
    LET fontSize == Max(12, 20 - node.depth * 2)
    IN Step(<<Prim("text", "heading", x, y, 200, fontSize + 10, GetText(node),
                   fontSize, Black)>>,
            y + fontSize + 20, <<>>, <<>>)

\* the calls of one rasterization: convertLatexToImage, then addFiles when an
\* image came back
RasterCalls(o) ==
    <<Call("convertLatexToImage", o.raster)>>
    \o (IF o.raster = "svg" THEN <<Call("addFiles", o.addFiles)>> ELSE <<>>)

\* a latex part whose empty image is reported as an error
InlineLatexStepErrorText(content, x, y, o, fileId) ==
    LET imageDataUrl == ConvertLatexToImage(content, o.raster)
        image == ImagePrim("latex-inline", x, y, 200, 40, fileId)
        failed == Step(<<Prim("text", "latex-inline-error", x, y, 200, 20,
                              "LaTeX Error: " \o content, 14, ErrorRed)>>,
                       y + 25, <<>>, RasterCalls(o))
    IN IF imageDataUrl # "" /\ o.addFiles = "ok"
       THEN Step(<<image>>, y + 50, <<FileData(fileId, imageDataUrl)>>, RasterCalls(o))
       ELSE failed

\* paragraph, lines 424-547: one latex part
InlineLatexStep(content, x, y, o, fileId) ==
    LET imageDataUrl == ConvertLatexToImage(content, o.raster)
        image == ImagePrim("latex-inline", x, y, 200, 40, fileId)
    IN IF imageDataUrl # ""
       THEN IF o.addFiles = "ok"
            THEN Step(<<image>>, y + 50, <<FileData(fileId, imageDataUrl)>>, RasterCalls(o))
            ELSE Step(<<image, Prim("text", "latex-inline-error", x, y, 200, 20,
                                    "LaTeX Error: " \o content, 14, ErrorRed)>>,
                      y + 25, <<>>, RasterCalls(o))
       ELSE Step(<<Prim("text", "latex-inline-error", x, y, 200, 20,
                        "LaTeX: " \o content, 14, FallbackOrange)>>,
                 y + 25, <<>>, RasterCalls(o))

\* paragraph, lines 548-573: one text part
InlineTextStep(content, x, y) ==
    IF Trim(content) # ""
    THEN Step(<<Prim("text", "text", x, y, 400, 20, content, 14, Black)>>, y + 25,
              <<>>, <<>>)
    ELSE Step(<<>>, y, <<>>, <<>>)

\* paragraph, lines 585-620: the paragraph without special content
PlainParagraphStep(node, x, y) ==
    LET fullText == CollectAllText(node)
    IN IF Trim(fullText) # ""
       THEN Step(<<Prim("text", "paragraph", x, y, 400, 30, fullText, 14, Black)>>,
                 y + 30, <<>>, <<>>)
       ELSE Step(<<>>, y, <<>>, <<>>)

\* thematicBreak, lines 1095-1128
ThematicBreakStep(x, y) ==
    Step(<<Prim("line", "line", x, y + 10, 300, 0, "", 0, Black)>>, y + 30, <<>>, <<>>)

\* listItem, lines 1131-1164; the nodes of the tree carry no parent link, so
\* node.parent is undefined and the bullet is '- '
\* a bullet for every item
BulletDash(node) == "- "

\* node.parent.start || 1
StartOrOne(start) == IF start = <<>> \/ start[1] = 0 THEN 1 ELSE start[1]

\* line 1133
Bullet(node) ==
    IF node.parent.present /\ node.parent.ordered
    THEN ToString(StartOrOne(node.parent.start)) \o ". "
    ELSE "- "

ListItemStep(node, x, y) ==
    Step(<<Prim("text", "listitem", x, y, 350, 30, Bullet(node) \o GetText(node), 14,
                Black)>>,
         y + 30, <<>>, <<>>)

(***************************************************************************)
(* Document Walker, part 2: diagrams, block equations, tables and the      *)
(* html dispatch.                                                          *)
(***************************************************************************)
\* an element as graphToExcalidraw returns it; `has` lists which of x, y and
\* height it carries
ConverterElement(type, x, y, height, has) ==
    [type |-> type, id |-> "diagram", x |-> x, y |-> y, width |-> 120,
     height |-> height, text |-> "", fontSize |-> 0, strokeColor |-> Black,
     fileId |-> 0, defined |-> has]

\* what the converter can hand back: nothing, a box with its label, an element
\* above the origin, an element without y and height, a flat element
ConverterResults ==
    {<<>>,
     <<ConverterElement("rectangle", 0, 0, 40, AllDefined),
       ConverterElement("text", 10, 60, 20, AllDefined)>>,
     <<ConverterElement("rectangle", 5, -200, 30, AllDefined)>>,
     <<ConverterElement("arrow", 7, 0, 0, {"x"})>>,
     <<ConverterElement("line", 0, 90, 0, AllDefined)>>}

\* the outcomes of parseMermaid followed by graphToExcalidraw
DiagramOutcomes ==
    {[kind |-> "parseThrows", result |-> <<>>], [kind |-> "convertThrows", result |-> <<>>],
     [kind |-> "noElementsField", result |-> <<>>]}
    \cup {[kind |-> "converted", result |-> es] : es \in ConverterResults}

\* graphToExcalidraw returned, with or without an elements field
Converted(d) == d.kind \in {"converted", "noElementsField"}

\* element.x || 0, element.y || 0, element.height || 20
OrZero(e, field) == IF field \in e.defined THEN e[field] ELSE 0
HeightIfPresent(e) == IF "height" \in e.defined THEN e.height ELSE 20
HeightOr20(e) == IF "height" \in e.defined /\ e.height # 0 THEN e.height ELSE 20

\* lines 641-645
PositionedElements(es, offsetX, offsetY) ==
    [k \in 1..Len(es) |->
        [es[k] EXCEPT !.x = OrZero(es[k], "x") + offsetX,
                      !.y = OrZero(es[k], "y") + offsetY,
                      !.defined = es[k].defined \cup {"x", "y"}]]

SetMax(S) == CHOOSE v \in S : \A w \in S : v >= w
SetMin(S) == CHOOSE v \in S : \A w \in S : v <= w

\* a maxY taken over the elements alone, not anchored at currentY
DiagramMaxYUnanchored(positioned, y) ==
    IF positioned = <<>> THEN y
    ELSE SetMax({OrZero(positioned[k], "y") + HeightOr20(positioned[k]) :
                    k \in 1..Len(positioned)})

\* lines 651-657: maxY starts at currentY
RECURSIVE DiagramMaxY(_, _)
DiagramMaxY(positioned, y) ==
    IF positioned = <<>> THEN y
    ELSE LET elementBottom == OrZero(Head(positioned), "y") + HeightOr20(Head(positioned))
         IN DiagramMaxY(Tail(positioned), Max(y, elementBottom))

DiagramCalls(code, d) ==
    <<Call("preprocessMermaidCode", PreprocessMermaidCode(code)),
      Call("parseMermaid", IF d.kind = "parseThrows" THEN "throws" ELSE "ok")>>
    \o (IF d.kind = "parseThrows" THEN <<>>
        ELSE <<Call("graphToExcalidraw",
                    IF d.kind = "convertThrows" THEN "throws" ELSE "ok")>>)

\* lines 626-738: preprocess, parse, convert, place
\* lines 649-660: the placed elements and the cursor below them
PlacedDiagram(positioned, y) ==
    Step(positioned, DiagramMaxY(positioned, y) + 50, <<>>, <<>>)

\* the diagram block without its catch: a failed parse or conversion leaves
\* the handler as an exception
DiagramPlacementUncaught(x, y, d) ==
    IF Converted(d)
    THEN IF Len(d.result) > 0
         THEN PlacedDiagram(PositionedElements(d.result, x, y), y)
         ELSE Step(<<Prim("text", "mermaid-empty", x, y, 400, 30,
                          "Mermaid diagram (no elements generated)", 16, "#007acc")>>,
                   y + 50, <<>>, <<>>)
    ELSE [Step(<<>>, y, <<>>, <<>>) EXCEPT !.thrown = TRUE]

\* the diagram block whose catch writes the error text and leaves the cursor
DiagramPlacementNoAdvance(x, y, d) ==
    IF Converted(d)
    THEN IF Len(d.result) > 0
         THEN PlacedDiagram(PositionedElements(d.result, x, y), y)
         ELSE Step(<<Prim("text", "mermaid-empty", x, y, 400, 30,
                          "Mermaid diagram (no elements generated)", 16, "#007acc")>>,
                   y + 50, <<>>, <<>>)
    ELSE Step(<<Prim("text", "mermaid-error", x, y, 400, 30,
                     "Error rendering mermaid: " \o d.kind, 16, ErrorRed)>>,
              y, <<>>, <<>>)

\* the diagram block that pushes nothing for a result without elements
DiagramPlacementEmptySilent(x, y, d) ==
    IF Converted(d)
    THEN IF Len(d.result) > 0
         THEN PlacedDiagram(PositionedElements(d.result, x, y), y)
         ELSE Step(<<>>, y, <<>>, <<>>)
    ELSE Step(<<Prim("text", "mermaid-error", x, y, 400, 30,
                     "Error rendering mermaid: " \o d.kind, 16, ErrorRed)>>,
              y + 50, <<>>, <<>>)

\* lines 635-703: what is pushed for an outcome of parse and convert
DiagramPlacement(x, y, d) ==
    IF Converted(d)
    THEN IF Len(d.result) > 0
         THEN PlacedDiagram(PositionedElements(d.result, x, y), y)
         ELSE Step(<<Prim("text", "mermaid-empty", x, y, 400, 30,
                          "Mermaid diagram (no elements generated)", 16, "#007acc")>>,
                   y + 50, <<>>, <<>>)
    ELSE Step(<<Prim("text", "mermaid-error", x, y, 400, 30,
                     "Error rendering mermaid: " \o d.kind, 16, ErrorRed)>>,
              y + 50, <<>>, <<>>)

DiagramStep(code, x, y, d) ==
    [DiagramPlacement(x, y, d) EXCEPT !.made = DiagramCalls(code, d)]

\* lines 739-861: a block equation
BlockLatexStep(latexCode, x, y, o, fileId) ==
    LET imageDataUrl == ConvertLatexToImage(latexCode, o.raster)
        image == ImagePrim("latex", x, y, 400, 60, fileId)
    IN IF imageDataUrl # ""
       THEN IF o.addFiles = "ok"
            THEN Step(<<image>>, y + 80, <<FileData(fileId, imageDataUrl)>>, RasterCalls(o))
            ELSE Step(<<image, Prim("text", "latex-error", x, y, 400, 30,
                                    "LaTeX Error: " \o latexCode, 16, ErrorRed)>>,
                      y + 50, <<>>, RasterCalls(o))
       ELSE Step(<<Prim("text", "latex-error", x, y, 400, 30,
                        "LaTeX: " \o latexCode, 16, FallbackOrange)>>,
                 y + 50, <<>>, RasterCalls(o))

\* the cursor moved to the table's bottom edge, without the padding
TableAdvanceNoPadding(tableElements) ==
    LET rects == {k \in 1..Len(tableElements) : tableElements[k].type = "rectangle"}
        texts == {k \in 1..Len(tableElements) : tableElements[k].type = "text"}
    IN IF texts # {} /\ rects # {}
       THEN SetMax({tableElements[k].y + tableElements[k].height : k \in rects})
            - SetMin({tableElements[k].y : k \in rects})
       ELSE 200

\* tableHeight + 30 from the rectangles, or the 200 fallback
TableAdvance(tableElements) ==
    LET rects == {k \in 1..Len(tableElements) : tableElements[k].type = "rectangle"}
        texts == {k \in 1..Len(tableElements) : tableElements[k].type = "text"}
    IN IF texts # {} /\ rects # {}
       THEN SetMax({tableElements[k].y + tableElements[k].height : k \in rects})
            - SetMin({tableElements[k].y : k \in rects}) + 30
       ELSE 200

\* table, lines 1071-1094
\* the table's primitives pushed and the cursor moved below them
PlacedTable(tableElements, y, made) ==
    Step(tableElements, y + TableAdvance(tableElements), <<>>, made)

\* lines 1073-1075
TableNodeRows(node) ==
    [r \in 1..Len(node.children) |->
        [j \in 1..Len(node.children[r].children) |->
            GetText(node.children[r].children[j])]]

MarkdownTableStep(tableMarkdown, x, y) ==
    PlacedTable(CreateVisualTableElements(tableMarkdown, x, y), y,
                <<Call("createVisualTableElements", tableMarkdown)>>)

\* table, lines 1071-1094
TableStep(node, x, y) == MarkdownTableStep(TableNodeMarkdown(TableNodeRows(node)), x, y)

\* lines 980-1032 and 1178-1230: the converted markdown laid out, or the error text
ConvertedTableStep(tableMarkdown, errorId, x, y) ==
    IF Trim(tableMarkdown) # ""
    THEN PlacedTable(CreateVisualTableElements(tableMarkdown, x, y), y,
                     <<Call("convertHtmlTableToMarkdown", tableMarkdown),
                       Call("createVisualTableElements", tableMarkdown)>>)
    ELSE Step(<<Prim("text", errorId, x, y, 400, 30,
                     "Error: Could not parse HTML table", 14, ErrorRed)>>,
              y + 50, <<>>, <<Call("convertHtmlTableToMarkdown", tableMarkdown)>>)

\* lines 979-1032 and 1177-1230: an HTML table converted, then laid out
HtmlTableStep(htmlTableContent, errorId, x, y) ==
    ConvertedTableStep(ConvertHtmlTableToMarkdown(htmlTableContent), errorId, x, y)

\* htmlContent.replace(/<[^>]*>/g, '').trim(), lines 1034-1069
OtherHtmlStep(htmlContent, x, y) ==
    LET cleanText == Trim(StripTags(htmlContent, 1))
    IN IF cleanText # ""
       THEN Step(<<Prim("text", "html-text", x, y, 400, 30, cleanText, 14, Black)>>,
                 y + 30, <<>>, <<>>)
       ELSE Step(<<>>, y, <<>>, <<>>)

HasTableTags(htmlContent) ==
    Includes(htmlContent, "<table>") /\ Includes(htmlContent, "</table>")

\* the if / else-if chain of the html branch, lines 624, 739, 862, 977, 1034
HtmlBranch(htmlContent) ==
    IF StartsWith(htmlContent, "<mermaid>") /\ EndsWith(htmlContent, "</mermaid>")
    THEN "mermaid"
    ELSE IF StartsWith(htmlContent, "<latex>") /\ EndsWith(htmlContent, "</latex>")
    THEN "latex"
    ELSE IF HasTableTags(htmlContent) THEN "tableAsMermaid"
    ELSE IF HasTableTags(htmlContent) THEN "htmlTable"
    ELSE "other"

\* the external outcomes a html node draws on
NoOutcome == [kind |-> "none", result |-> <<>>, raster |-> "none", addFiles |-> "none"]

HtmlOutcomes(htmlContent) ==
    IF HtmlBranch(htmlContent) \in {"mermaid", "tableAsMermaid"}
    THEN {[kind |-> d.kind, result |-> d.result, raster |-> "none", addFiles |-> "none"] :
             d \in DiagramOutcomes}
    ELSE IF HtmlBranch(htmlContent) = "latex"
    THEN {[kind |-> "none", result |-> <<>>, raster |-> o.raster, addFiles |-> o.addFiles] :
             o \in LatexOutcomes}
    ELSE {NoOutcome}

\* html, lines 622-1070
HtmlStep(node, x, y, out, fileId) ==
    LET htmlContent == node.value
        branch == HtmlBranch(htmlContent)
    IN CASE branch \in {"mermaid", "tableAsMermaid"} ->
              \* lines 626-738 and, word for word, lines 864-976
              DiagramStep(Trim(SliceBetween(htmlContent, 9, 10)), x, y, out)
         [] branch = "latex" ->
              BlockLatexStep(Trim(SliceBetween(htmlContent, 7, 8)), x, y, out, fileId)
         [] branch = "htmlTable" ->
              HtmlTableStep(htmlContent, "html-table-error", x, y)
         [] OTHER -> OtherHtmlStep(htmlContent, x, y)

Digits == "0123456789"
IsDigit(c) == c # "" /\ Includes(Digits, c)

\* parseInt of the digits that start at position i
RECURSIVE ParseIntFrom(_, _, _)
ParseIntFrom(s, i, acc) ==
    IF i <= Len(s) /\ IsDigit(Char(s, i))
    THEN ParseIntFrom(s, i + 1, acc * 10 + IndexOfFrom(Digits, Char(s, i), 1) - 1)
    ELSE acc

\* text.match(/TABLE_BLOCK_(\d+)/): the position of the first digit, 0 for no match
TableBlockMatch(s) ==
    LET hits == {i \in 1..(Len(s) - Len("TABLE_BLOCK_")) :
                    /\ MatchesAt(s, "TABLE_BLOCK_", i)
                    /\ IsDigit(Char(s, i + Len("TABLE_BLOCK_")))}
    IN IF hits = {} THEN 0 ELSE SetMin(hits) + Len("TABLE_BLOCK_")

\* a text branch that shows a placeholder without a block as it is written
TextStepLiteralFallback(node, blocks, x, y) ==
    LET m == TableBlockMatch(node.value)
        blockIndex == ParseIntFrom(node.value, m, 0)
    IN IF m # 0 /\ blockIndex < Len(blocks)
       THEN HtmlTableStep(blocks[blockIndex + 1], "table-error", x, y)
       ELSE Step(<<Prim("text", "text", x, y, 300, 30, node.value, 14, Black)>>,
                 y + 30, <<>>, <<>>)

\* text, lines 1165-1267
TextStep(node, blocks, x, y) ==
    LET m == TableBlockMatch(node.value)
        blockIndex == ParseIntFrom(node.value, m, 0)
    IN IF m # 0
       THEN IF blockIndex < Len(blocks)
            THEN HtmlTableStep(blocks[blockIndex + 1], "table-error", x, y)
            ELSE Step(<<>>, y, <<>>, <<>>)
       ELSE Step(<<Prim("text", "text", x, y, 300, 30, node.value, 14, Black)>>,
                 y + 30, <<>>, <<>>)

(***************************************************************************)
(* Document Walker, part 3: traverse as steps over an agenda, and the loop *)
(* of convertMarkdownTreeToElements.                                       *)
(***************************************************************************)
NoNode == Node("none", 0, "", <<>>)
NoPart == [type |-> "none", content |-> ""]

NodeItem(node, depth) == [kind |-> "node", node |-> node, part |-> NoPart, depth |-> depth]
PartItem(part, depth) == [kind |-> "part", node |-> NoNode, part |-> part, depth |-> depth]

\* the types the closing recursion of traverse skips, line 1270
HandledTypes ==
    {"heading", "paragraph", "listItem", "text", "table", "thematicBreak", "html"}

\* the types whose branch of the if / else-if chain emits or advances
EmittingTypes ==
    {"heading", "paragraph", "html", "table", "thematicBreak", "listItem", "text"}

\* lines 380-384 and 576-578: a html child, or a text child that yields parts
HasSpecialContent(node) ==
    \E k \in 1..Len(node.children) :
        \/ node.children[k].type = "html"
        \/ /\ node.children[k].type = "text"
           /\ Len(ParagraphTextParts(node.children[k].value)) > 0

\* the work the paragraph loop does child by child, lines 382-579
ParagraphAgenda(node, depth) ==
    FlatSeq([k \in 1..Len(node.children) |->
        LET child == node.children[k] IN
        IF child.type = "html" THEN <<NodeItem(child, depth)>>
        ELSE IF child.type = "text"
        THEN LET ps == ParagraphTextParts(child.value)
             IN [i \in 1..Len(ps) |-> PartItem(ps[i], depth)]
        ELSE <<>>])

\* lines 1270-1275: the children, one level deeper
ChildAgenda(node, depth) ==
    [k \in 1..Len(node.children) |-> NodeItem(node.children[k], depth + 1)]

\* convertToExcalidrawElements: one scene element per primitive
ConvertToExcalidrawElements(es) == [k \in 1..Len(es) |-> [skeleton |-> es[k]]]

\* a recursion that is not awaited: the children are walked after the siblings
AfterNodeSiblingsFirst ==
    Tail(agenda) \o (IF Head(agenda).node.type \in HandledTypes THEN <<>>
                     ELSE ChildAgenda(Head(agenda).node, Head(agenda).depth))

\* lines 1269-1275: what is left to do once the node's own branch is through:
\* its children unless its type is skipped, then the rest
AfterNode ==
    (IF Head(agenda).node.type \in HandledTypes THEN <<>>
     ELSE ChildAgenda(Head(agenda).node, Head(agenda).depth)) \o Tail(agenda)

Traversing(kind) == pc = "traverse" /\ agenda # <<>> /\ Head(agenda).kind = kind

AtNode(types) == Traversing("node") /\ Head(agenda).node.type \in types

ItemX == IndentX(origin.x, Head(agenda).depth)

NextFileId == Len(elements) + Len(nodeElements) + 1

\* a handler's step takes effect and the agenda moves on; an exception that
\* left traverse would reject the awaiting loop, line 1284
Apply(step, rest) ==
    /\ nodeElements' = nodeElements \o step.pushed
    /\ currentY' = step.newY
    /\ files' = files \o step.newFiles
    /\ calls' = calls \o step.made
    /\ agenda' = rest
    /\ pc' = IF step.thrown THEN "thrown" ELSE pc
    /\ steps' = steps + 1
    /\ UNCHANGED <<tree, tableBlocks, origin, childIdx, elements,
                   accumulatedElements, scene, yAtStart>>
    /\ UNCHANGED <<segVars, merVars, tabVars, engVars, capVars, retryVars, overlapVars, sharedVars,
                   procVars, storeVars, domVars>>

\* for (const child of tree.children) { traverse(child, 0) ...
StartChild ==
    /\ pc = "loop"
    /\ childIdx < Len(tree)
    /\ childIdx' = childIdx + 1
    /\ agenda' = <<NodeItem(tree[childIdx + 1], 0)>>
    /\ yAtStart' = Append(yAtStart, currentY)
    /\ nodeElements' = <<>>
    /\ calls' = <<>>
    /\ pc' = "traverse"
    /\ steps' = steps + 1
    /\ UNCHANGED <<tree, tableBlocks, origin, currentY, elements, accumulatedElements,
                   files, scene>>
    /\ UNCHANGED <<segVars, merVars, tabVars, engVars, capVars, retryVars, overlapVars, sharedVars,
                   procVars, storeVars, domVars>>

HandleHeading ==
    /\ AtNode({"heading"})
    /\ Apply(HeadingStep(Head(agenda).node, ItemX, currentY), AfterNode)

HandleParagraph ==
    /\ AtNode({"paragraph"})
    /\ IF HasSpecialContent(Head(agenda).node)
       THEN Apply(Step(<<>>, currentY, <<>>, <<>>),
                  ParagraphAgenda(Head(agenda).node, Head(agenda).depth) \o AfterNode)
       ELSE Apply(PlainParagraphStep(Head(agenda).node, ItemX, currentY), AfterNode)

HandleLatexPart ==
    /\ Traversing("part")
    /\ Head(agenda).part.type = "latex"
    /\ \E o \in LatexOutcomes :
          Apply(InlineLatexStep(Head(agenda).part.content, ItemX, currentY, o, NextFileId),
                Tail(agenda))

HandleTextPart ==
    /\ Traversing("part")
    /\ Head(agenda).part.type = "text"
    /\ Apply(InlineTextStep(Head(agenda).part.content, ItemX, currentY), Tail(agenda))

HandleHtml ==
    /\ AtNode({"html"})
    /\ \E out \in HtmlOutcomes(Head(agenda).node.value) :
          Apply(HtmlStep(Head(agenda).node, ItemX, currentY, out, NextFileId), AfterNode)

HandleTable ==
    /\ AtNode({"table"})
    /\ Apply(TableStep(Head(agenda).node, ItemX, currentY), AfterNode)

HandleThematicBreak ==
    /\ AtNode({"thematicBreak"})
    /\ Apply(ThematicBreakStep(ItemX, currentY), AfterNode)

HandleListItem ==
    /\ AtNode({"listItem"})
    /\ Apply(ListItemStep(Head(agenda).node, ItemX, currentY), AfterNode)

HandleText ==
    /\ AtNode({"text"})
    /\ Apply(TextStep(Head(agenda).node, tableBlocks, ItemX, currentY), AfterNode)

\* a list or any other type: no branch of its own that emits, then the
\* closing recursion
HandleContainer ==
    /\ Traversing("node")
    /\ Head(agenda).node.type \notin EmittingTypes
    /\ Apply(Step(<<>>, currentY, <<>>, <<>>), AfterNode)

\* what the host does with the child's elements: "ok", or one of
\* convertToExcalidrawElements and updateScene throws (neither call is guarded)
HostOutcomes == {"ok", "convertThrows", "updateSceneThrows"}

HostCalls(host) ==
    <<Call("convertToExcalidrawElements", IF host = "convertThrows" THEN "throws" ELSE "ok")>>
    \o (IF host = "convertThrows" THEN <<>>
        ELSE <<Call("updateScene", IF host = "updateSceneThrows" THEN "throws" ELSE "ok")>>)

\* a snapshot that holds the latest child's elements only
AccumulateLatestOnly(accumulated, converted) == converted

\* line 1289: accumulatedElements = [...accumulatedElements, ...excalidrawElements]
Accumulate(accumulated, converted) == accumulated \o converted

\* lines 1286-1291: traverse has returned; collect, convert, update the scene
FinishChild ==
    /\ pc = "traverse"
    /\ agenda = <<>>
    /\ elements' = elements \o nodeElements
    /\ \E host \in HostOutcomes :
          /\ accumulatedElements' =
                IF host = "convertThrows" THEN accumulatedElements
                ELSE Accumulate(accumulatedElements,
                                ConvertToExcalidrawElements(nodeElements))
          /\ scene' = IF host = "ok" THEN accumulatedElements' ELSE scene
          /\ calls' = calls \o HostCalls(host)
          /\ pc' = IF host = "ok" THEN "delay" ELSE "rejected"
    /\ steps' = steps + 1
    /\ UNCHANGED <<tree, tableBlocks, origin, childIdx, agenda, currentY, nodeElements,
                   files, yAtStart>>
    /\ UNCHANGED <<segVars, merVars, tabVars, engVars, capVars, retryVars, overlapVars, sharedVars,
                   procVars, storeVars, domVars>>

\* await new Promise(resolve => setTimeout(resolve, 1000))
Delay ==
    /\ pc = "delay"
    /\ pc' = "loop"
    /\ steps' = steps + 1
    /\ UNCHANGED <<tree, tableBlocks, origin, childIdx, agenda, currentY, elements,
                   nodeElements, accumulatedElements, files, scene, yAtStart, calls>>
    /\ UNCHANGED <<segVars, merVars, tabVars, engVars, capVars, retryVars, overlapVars, sharedVars,
                   procVars, storeVars, domVars>>

\* return elements
Return ==
    /\ pc = "loop"
    /\ childIdx = Len(tree)
    /\ pc' = "returned"
    /\ steps' = steps + 1
    /\ UNCHANGED <<tree, tableBlocks, origin, childIdx, agenda, currentY, elements,
                   nodeElements, accumulatedElements, files, scene, yAtStart, calls>>
    /\ UNCHANGED <<segVars, merVars, tabVars, engVars, capVars, retryVars, overlapVars, sharedVars,
                   procVars, storeVars, domVars>>

(***************************************************************************)
(* The documents walked.                                                   *)
(***************************************************************************)
MaxChildren == 2

SampleTable == <<<<"A", "B">>, <<"1", "2">>>>

EnergyText == "Energy: <latex>E=mc^2</latex> is conserved."

FirstNodes ==
    {Heading(1, "Title"), Heading(6, "Deep"),
     Paragraph(<<Text("Hello world")>>),
     Paragraph(<<Text("Hello "), Strong("bold"), Text(" world")>>),
     Paragraph(<<Strong("bold")>>),
     Paragraph(<<Text(" ")>>),
     Paragraph(<<Text(EnergyText)>>),
     Paragraph(<<Text("if <latex> a<b </latex> then")>>),
     Paragraph(<<Text("so <latex> x </latex>"), Html("<latex>y</latex>")>>),
     Html("<mermaid>A[x y] --> B</mermaid>"),
     Html("<latex> x^2 </latex>"),
     Container("blockquote", <<Html("<mermaid>D</mermaid>")>>),
     Html(TableHtml(SampleTable)),
     Html("<div>note</div>"),
     Html("<br>"),
     TableNode(SampleTable),
     TableNode(<<<<"solo">>>>),
     TableNode(<<>>),
     Node("thematicBreak", 0, "", <<>>),
     Container("list", <<ListItem("one"), ListItem("two")>>),
     Container("list", <<ListItemOf("three", ListParent(TRUE, <<3>>)),
                         ListItemOf("more", ListParent(TRUE, <<3>>))>>),
     Container("list", <<ListItemOf("zero", ListParent(TRUE, <<0>>))>>),
     Container("list", <<ListItemOf("first", ListParent(TRUE, <<>>))>>),
     Container("list", <<ListItemOf("dash", ListParent(FALSE, <<>>))>>),
     Container("blockquote", <<Paragraph(<<Text("quoted")>>)>>),
     Container("blockquote",
               <<Heading(3, "Three"),
                 Container("blockquote", <<Heading(4, "Four"), Heading(5, "Five")>>)>>),
     Container("blockquote",
               <<Container("blockquote", <<Paragraph(<<Text("inner")>>)>>),
                 Paragraph(<<Text("outer")>>)>>),
     Text("plain"),
     Text("__TABLE_BLOCK_0__"), Text("__TABLE_BLOCK_1__"), Text("__TABLE_BLOCK_7__")}

FollowUps ==
    {Heading(2, "Next"), Paragraph(<<Text("After")>>), Html("<mermaid>C</mermaid>"),
     Node("thematicBreak", 0, "", <<>>)}

Documents ==
    {<<>>} \cup
    {<<c>> \o f : c \in FirstNodes,
                  f \in UNION {[1..n -> FollowUps] : n \in 0..(MaxChildren - 1)}}

Origins == {[x |-> 50, y |-> 100], [x |-> 0, y |-> 0]}

ExistingShape == [skeleton |-> Prim("text", "existing", 0, 0, 100, 20, "old", 14, Black)]

InitWalk ==
    /\ tree \in Documents
    /\ tableBlocks = <<TableHtml(SampleTable), "<table></table>">>
    /\ origin \in Origins
    /\ pc = "loop"
    /\ childIdx = 0
    /\ agenda = <<>>
    /\ currentY = origin.y
    /\ elements = <<>>
    /\ nodeElements = <<>>
    /\ accumulatedElements \in {<<>>, <<ExistingShape>>}
    /\ scene = accumulatedElements
    /\ files = <<>>
    /\ yAtStart = <<>>
    /\ calls = <<>>
    /\ steps = 0
    /\ SegmentIdle
    /\ MermaidIdle
    /\ TableIdle
    /\ EngineIdle
    /\ ExtractionIdle
    /\ RetryIdle
    /\ OverlapIdle
    /\ SharedIdle
    /\ ProcessingIdle
    /\ StoreIdle
    /\ DocumentIdle

Next ==
    \/ StartChild
    \/ HandleHeading
    \/ HandleParagraph
    \/ HandleLatexPart
    \/ HandleTextPart
    \/ HandleHtml
    \/ HandleTable
    \/ HandleThematicBreak
    \/ HandleListItem
    \/ HandleText
    \/ HandleContainer
    \/ FinishChild
    \/ Delay
    \/ Return

Spec == InitWalk /\ [][Next]_vars

\* the pass has not settled
Running == pc \in {"loop", "traverse", "delay"}

\* the event loop resumes the pass: an awaited call settles or the timer
\* fires, and the pass takes its next step
Resume == Running /\ steps' = steps + 1

\* every awaited call settles and every timer fires
FairSpec == Spec /\ WF_steps(Resume)

(***************************************************************************)
(* Properties of the walk.                                                 *)
(***************************************************************************)
\* traverse has returned for the current top-level child and the loop has not
\* yet collected its elements
ChildDone == pc = "traverse" /\ agenda = <<>> /\ childIdx >= 1

CurrentChild == tree[childIdx]

\* the cursor as it was when the current child started
ChildStartY == yAtStart[childIdx]

NonDecreasing(seq) == \A i, j \in 1..Len(seq) : i <= j => seq[i] <= seq[j]

\* C1: the values of currentY read at the start of the top-level children are
\* non-decreasing over the children, and no step of the walk lowers currentY,
\* whatever the rasterizer, the diagram parser and the diagram converter do.
C1_CursorMonotone ==
    /\ [](NonDecreasing(yAtStart))
    /\ [][currentY' >= currentY]_vars

\* a diagram whose converted element lies above the cursor has been placed as
\* the first child, and the second child starts 50 below the first
C1_Witness ==
    /\ Len(yAtStart) = 2
    /\ tree[1].type = "html"
    /\ \E k \in 1..Len(elements) : elements[k].id = "diagram" /\ elements[k].y < yAtStart[1]
    /\ yAtStart[2] = yAtStart[1] + 50

HostThrew ==
    /\ calls # <<>>
    /\ calls[Len(calls)].fn \in {"convertToExcalidrawElements", "updateScene"}
    /\ calls[Len(calls)].outcome = "throws"

AllChildrenProcessed == childIdx = Len(tree) /\ Len(yAtStart) = Len(tree)

\* C2: whichever rasterizations, diagram parses, diagram conversions or HTML
\* table conversions fail, no exception leaves a handler, the loop takes the
\* top-level children one by one in order, and the pass eventually returns
\* with every child processed; the only other end is the rejection caused by
\* the host's own convertToExcalidrawElements or updateScene throwing.
C2_PassCompletes ==
    /\ [](pc # "thrown")
    /\ [](pc = "rejected" => HostThrew)
    /\ [](pc = "returned" => AllChildrenProcessed)
    /\ [][childIdx' \in {childIdx, childIdx + 1}]_vars
    /\ <>(pc = "returned" \/ pc = "rejected")

\* the pass has returned from a two-child document whose first child was a
\* diagram that failed to parse or convert
C2_Witness ==
    /\ pc = "returned"
    /\ Len(tree) = 2
    /\ Len(elements) >= 2
    /\ elements[1].id = "mermaid-error"

\* the parts of a paragraph made of one text child T1 <latex>E</latex> T2
\* with T1 and T2 non-blank, and <<>> for any other node
MarkedParts(node) ==
    IF node.type = "paragraph" /\ Len(node.children) = 1 /\ node.children[1].type = "text"
    THEN LET ps == ParagraphTextParts(node.children[1].value)
         IN IF /\ Len(ps) = 3
               /\ ps[1].type = "text" /\ Trim(ps[1].content) # ""
               /\ ps[2].type = "latex"
               /\ ps[3].type = "text" /\ Trim(ps[3].content) # ""
            THEN ps ELSE <<>>
    ELSE <<>>

\* the one rasterization of the current child came back without an image
RasterizerFailed ==
    /\ Len(calls) = 1
    /\ calls[1].fn = "convertLatexToImage"
    /\ calls[1].outcome # "svg"

FailedEquationParagraph ==
    ChildDone /\ MarkedParts(CurrentChild) # <<>> /\ RasterizerFailed

PlainText(e, content, y) ==
    /\ e.type = "text" /\ e.text = content /\ e.strokeColor = Black /\ e.y = y

\* C5 as stated: the equation's place is taken by an error-styled text
\* primitive "LaTeX Error: " followed by E.
C5_FailingRasterizer_Original ==
    FailedEquationParagraph =>
        LET ps == MarkedParts(CurrentChild)
        IN /\ Len(nodeElements) = 3
           /\ nodeElements[1].text = ps[1].content
           /\ nodeElements[2].type = "text"
           /\ nodeElements[2].text = "LaTeX Error: " \o ps[2].content
           /\ nodeElements[2].strokeColor = ErrorRed
           /\ nodeElements[3].text = ps[3].content
           /\ nodeElements[1].y < nodeElements[2].y
           /\ nodeElements[2].y < nodeElements[3].y

\* C5: for a paragraph text child T1 <latex>E</latex> T2 (T1, T2 non-blank)
\* and a rasterizer that fails, the walker emits exactly three primitives in
\* order: text(T1) at the cursor, a text primitive "LaTeX: " followed by E in
\* the fallback tint #ff6b35 25 below, and text(T2) 50 below; the cursor ends
\* 75 below, and no "LaTeX Error: " text is emitted.
C5_FailingRasterizer ==
    FailedEquationParagraph =>
        LET ps == MarkedParts(CurrentChild)
        IN /\ Len(nodeElements) = 3
           /\ PlainText(nodeElements[1], ps[1].content, ChildStartY)
           /\ nodeElements[2].type = "text"
           /\ nodeElements[2].text = "LaTeX: " \o ps[2].content
           /\ nodeElements[2].strokeColor = FallbackOrange
           /\ nodeElements[2].y = ChildStartY + 25
           /\ PlainText(nodeElements[3], ps[3].content, ChildStartY + 50)
           /\ currentY = ChildStartY + 75

\* the Energy paragraph has been walked with a rasterizer that threw
C5_Witness ==
    /\ FailedEquationParagraph
    /\ CurrentChild = Paragraph(<<Text(EnergyText)>>)
    /\ calls[1].outcome = "typesetThrows"
    /\ Len(nodeElements) = 3

\* a paragraph without html child and without equation marker in a text child
PureProse(node) ==
    /\ node.type = "paragraph"
    /\ \A k \in 1..Len(node.children) :
          /\ node.children[k].type # "html"
          /\ node.children[k].type = "text" =>
                \A i \in 1..Len(ParagraphTextParts(node.children[k].value)) :
                    ParagraphTextParts(node.children[k].value)[i].type # "latex"

\* C6: a paragraph without html child and without equation marker, whose
\* text is not blank, yields exactly one text primitive carrying all its
\* descendant text in order, and advances the cursor by 30.
C6_PureProse ==
    ChildDone /\ PureProse(CurrentChild) /\ Trim(CollectAllText(CurrentChild)) # "" =>
        /\ Len(nodeElements) = 1
        /\ nodeElements[1].type = "text"
        /\ nodeElements[1].text = CollectAllText(CurrentChild)
        /\ currentY = ChildStartY + 30

\* a html node with table tags that is neither a diagram nor an equation wrapper
TableMarkup(node) ==
    /\ node.type = "html"
    /\ HasTableTags(node.value)
    /\ ~(StartsWith(node.value, "<mermaid>") /\ EndsWith(node.value, "</mermaid>"))
    /\ ~(StartsWith(node.value, "<latex>") /\ EndsWith(node.value, "</latex>"))

Called(fn) == \E k \in 1..Len(calls) : calls[k].fn = fn

\* C7: a html node with <table> and </table> that is neither a diagram nor an
\* equation wrapper is converted by convertHtmlTableToMarkdown and never
\* handed to the diagram preprocessor or parser.
C7_TableDispatch ==
    ChildDone /\ TableMarkup(CurrentChild) =>
        /\ Called("convertHtmlTableToMarkdown")
        /\ ~Called("preprocessMermaidCode")
        /\ ~Called("parseMermaid")

HeadingFontSize(level) == IF 20 - 2 * level > 12 THEN 20 - 2 * level ELSE 12

\* C12: a heading of level L handled at recursion depth d with the cursor at
\* y adds exactly one text primitive, with fontSize = max(12, 20 - 2*L),
\* x = startX + 20*d and y-coordinate y, and leaves the cursor at
\* y + fontSize + 20.
C12_HeadingLayout ==
    [][AtNode({"heading"}) =>
          LET level == Head(agenda).node.depth
              d == Head(agenda).depth
              added == nodeElements'[Len(nodeElements')]
          IN /\ Len(nodeElements') = Len(nodeElements) + 1
             /\ SubSeq(nodeElements', 1, Len(nodeElements)) = nodeElements
             /\ added.type = "text"
             /\ added.fontSize = HeadingFontSize(level)
             /\ added.x = origin.x + 20 * d
             /\ added.y = currentY
             /\ currentY' = currentY + HeadingFontSize(level) + 20]_vars

\* the level-1 heading "Title" walked from startX = 0, startY = 0: font size
\* 18, y 0, cursor 38
C12_Witness ==
    /\ ChildDone
    /\ CurrentChild = Heading(1, "Title")
    /\ origin = [x |-> 0, y |-> 0]
    /\ Len(nodeElements) = 1
    /\ nodeElements[1].fontSize = 18
    /\ nodeElements[1].y = 0
    /\ currentY = 38

\* what has been emitted so far, in order, and what this step adds to it
Emitted == elements \o nodeElements
EmittedNext == elements \o nodeElements'

Pushing == Traversing("node") \/ Traversing("part")

\* a table's extent is that of its rectangles; the cell texts lie inside them
InFlow(e) == ~StartsWith(e.id, "table-text")

\* primitives that one step pushes as one block: the cells of a table, the
\* primitives of a diagram
OneBlock(p, q) ==
    \/ StartsWith(p.id, "table-cell") /\ StartsWith(q.id, "table-cell")
    \/ p.id = "diagram" /\ q.id = "diagram"

\* C13: whenever a block p is emitted before a block q, q's top is at least
\* p's Y plus p's height, whatever the external calls do.
C13_NonOverlap ==
    [][Pushing =>
          \A k \in (Len(Emitted) + 1)..Len(EmittedNext) : \A i \in 1..(k - 1) :
              LET p == EmittedNext[i]
                  q == EmittedNext[k]
              IN \/ ~InFlow(p)
                 \/ ~InFlow(q)
                 \/ i > Len(Emitted) /\ OneBlock(p, q)
                 \/ q.y >= p.y + p.height]_vars

\* the next thing handled is an empty or whitespace-only text segment
BlankTextPart ==
    /\ Traversing("part")
    /\ Head(agenda).part.type = "text"
    /\ Trim(Head(agenda).part.content) = ""

\* the next thing handled is a table node with fewer than the two rows the
\* table formatter needs
SparseTable == AtNode({"table"}) /\ Len(Head(agenda).node.children) < 2

NoOp == nodeElements' = nodeElements /\ currentY' = currentY

\* C14: handling an empty or whitespace-only text segment, or a table node
\* with zero rows or fewer rows than the table formatter needs, adds no
\* primitive and leaves currentY unchanged.
C14_SilentNoOp == [][BlankTextPart \/ SparseTable => NoOp]_vars

\* the next thing handled is a html node wrapped in <mermaid>...</mermaid>
AtDiagram == AtNode({"html"}) /\ HtmlBranch(Head(agenda).node.value) = "mermaid"

\* the step's last call, parseMermaid or graphToExcalidraw, threw
DiagramThrew ==
    /\ Len(calls') > Len(calls)
    /\ calls'[Len(calls')].fn \in {"parseMermaid", "graphToExcalidraw"}
    /\ calls'[Len(calls')].outcome = "throws"

\* C15: when the diagram parser or converter throws for a diagram wrapper
\* handled at depth d with the cursor at y, the exception stays inside
\* traverse, exactly one error-styled text primitive is emitted at
\* (startX + 20*d, y), and the cursor advances by 50.
C15_DiagramFallback ==
    [][AtDiagram /\ DiagramThrew =>
          LET added == nodeElements'[Len(nodeElements')]
          IN /\ pc' = "traverse"
             /\ Len(nodeElements') = Len(nodeElements) + 1
             /\ SubSeq(nodeElements', 1, Len(nodeElements)) = nodeElements
             /\ added.type = "text"
             /\ added.strokeColor = ErrorRed
             /\ StartsWith(added.text, "Error rendering mermaid: ")
             /\ added.x = origin.x + 20 * Head(agenda).depth
             /\ added.y = currentY
             /\ currentY' = currentY + 50]_vars

\* a diagram inside a blockquote, at depth 1, whose conversion threw
C15_Witness ==
    /\ ChildDone
    /\ CurrentChild = Container("blockquote", <<Html("<mermaid>D</mermaid>")>>)
    /\ calls[Len(calls)] = Call("graphToExcalidraw", "throws")
    /\ Len(nodeElements) = 1
    /\ nodeElements[1].x = origin.x + 20
    /\ currentY = ChildStartY + 50

\* the primitives this step adds
Added == SubSeq(nodeElements', Len(nodeElements) + 1, Len(nodeElements'))

\* the converter returned at least one primitive and the step placed them
DiagramPlaced ==
    /\ AtDiagram
    /\ Len(calls') > Len(calls)
    /\ calls'[Len(calls')] = Call("graphToExcalidraw", "ok")
    /\ Len(nodeElements') > Len(nodeElements)
    /\ nodeElements'[Len(nodeElements')].id = "diagram"

\* every added primitive sits at its converter position (missing x or y
\* taken as 0) plus (startX + 20*d, y0)
OffsetBy(result) ==
    /\ Len(Added) = Len(result)
    /\ \A k \in 1..Len(result) :
          /\ Added[k].type = result[k].type
          /\ Added[k].x = (IF "x" \in result[k].defined THEN result[k].x ELSE 0)
                             + origin.x + 20 * Head(agenda).depth
          /\ Added[k].y = (IF "y" \in result[k].defined THEN result[k].y ELSE 0) + currentY

\* the height of a primitive, 20 when it is missing
HeightMissing20(e) == IF "height" \in e.defined THEN e.height ELSE 20

\* the height of a primitive, 20 when it is missing or 0
HeightFalsy20(e) == IF "height" \in e.defined /\ e.height # 0 THEN e.height ELSE 20

\* C16 as stated: the cursor ends at max(y0, max over the primitives of
\* y + height, height 20 when missing) + 50.
C16_DiagramPlacement_Original ==
    [][DiagramPlaced =>
          \E result \in ConverterResults :
              /\ OffsetBy(result)
              /\ currentY' = SetMax({currentY} \cup
                                    {Added[k].y + HeightMissing20(Added[k]) :
                                        k \in 1..Len(Added)}) + 50]_vars

\* C16: when the converter returns at least one primitive for a diagram
\* handled at depth d with the cursor at y0, every added primitive sits at its
\* converter position (missing x or y taken as 0) plus (startX + 20*d, y0),
\* and the cursor ends at max(y0, max over the primitives of y + height) + 50
\* with a height that is missing or 0 counted as 20; so it is at least 50
\* below every added primitive's bottom.
C16_DiagramPlacement ==
    [][DiagramPlaced =>
          /\ \E result \in ConverterResults :
                /\ OffsetBy(result)
                /\ currentY' = SetMax({currentY} \cup
                                      {Added[k].y + HeightFalsy20(Added[k]) :
                                          k \in 1..Len(Added)}) + 50
          /\ \A k \in 1..Len(Added) :
                currentY' >= Added[k].y
                                + (IF "height" \in Added[k].defined THEN Added[k].height ELSE 0)
                                + 50]_vars

\* a diagram of one flat line, 90 below the cursor, has been placed: the
\* cursor ends 90 + 20 + 50 lower
C16_Witness ==
    /\ ChildDone
    /\ CurrentChild.type = "html"
    /\ Len(nodeElements) = 1
    /\ nodeElements[1].type = "line"
    /\ nodeElements[1].id = "diagram"
    /\ nodeElements[1].height = 0
    /\ nodeElements[1].y = ChildStartY + 90
    /\ currentY = ChildStartY + 160

\* the values of the text leaves below a node, in document order
RECURSIVE TextLeaves(_)
TextLeaves(node) ==
    IF node.type = "text" THEN <<node.value>>
    ELSE FlatSeq([k \in 1..Len(node.children) |-> TextLeaves(node.children[k])])

\* the types of the nodes of a subtree
RECURSIVE TypesBelow(_)
TypesBelow(node) ==
    {node.type} \cup UNION {TypesBelow(node.children[k]) : k \in 1..Len(node.children)}

\* a child made of prose only: every primitive it emits comes from a text leaf
ProseOnly(node) ==
    /\ TypesBelow(node) \cap {"html", "table", "thematicBreak"} = {}
    /\ \A k \in 1..Len(TextLeaves(node)) :
           ~Includes(TextLeaves(node)[k], "__TABLE_BLOCK_")

RECURSIVE SumOf(_)
SumOf(ns) == IF ns = <<>> THEN 0 ELSE Head(ns) + SumOf(Tail(ns))

\* the segments a leaf is cut into where it has equation markers, one otherwise
SegmentsOf(value) ==
    IF Len(ParagraphTextParts(value)) > 1 THEN Len(ParagraphTextParts(value)) ELSE 1

\* the segments of a leaf are disjoint pieces of it
DisjointSegments(value) ==
    LET ps == ParagraphTextParts(value)
    IN SumOf([i \in 1..Len(ps) |-> Len(ps[i].content)]) <= Len(value)

SkippedTypes ==
    {"heading", "paragraph", "listItem", "text", "table", "thematicBreak", "html"}

\* what a step on a node puts in front of the rest of the agenda
Enqueued == SubSeq(agenda', 1, Len(agenda') - Len(Tail(agenda)))

\* a step on a node of a skipped type enqueues none of its children for the
\* generic walk; a step on any other type emits nothing and enqueues exactly
\* its children, one level deeper
RecursionOnlyForOtherTypes ==
    Traversing("node") /\ agenda' # agenda =>
        LET it == Head(agenda) IN
        /\ Len(agenda') >= Len(Tail(agenda))
        /\ SubSeq(agenda', Len(agenda') - Len(Tail(agenda)) + 1, Len(agenda')) = Tail(agenda)
        /\ IF it.node.type \in SkippedTypes
           THEN \A k \in 1..Len(Enqueued) :
                    \/ Enqueued[k].kind = "part"
                    \/ /\ it.node.type = "paragraph"
                       /\ Enqueued[k].kind = "node"
                       /\ Enqueued[k].node.type = "html"
                       /\ Enqueued[k].depth = it.depth
           ELSE /\ Enqueued = [k \in 1..Len(it.node.children) |->
                                  NodeItem(it.node.children[k], it.depth + 1)]
                /\ nodeElements' = nodeElements

\* C17: no double emission: the text of a text leaf contributes to at most
\* one emitted primitive, segment by segment (a leaf with equation markers is
\* cut into disjoint text and equation segments, and each segment is emitted
\* at most once), so a child made of prose only emits at most one primitive
\* per segment of its leaves; the generic recursion into children, at
\* depth + 1, happens only for types other than heading, paragraph, listItem,
\* text, table, thematicBreak and html, and a step on one of those types
\* enqueues no child for the generic walk
C17_NoDoubleEmission ==
    /\ [](ChildDone /\ ProseOnly(CurrentChild) =>
            LET leaves == TextLeaves(CurrentChild) IN
            /\ Len(nodeElements) <=
                   SumOf([k \in 1..Len(leaves) |-> SegmentsOf(leaves[k])])
            /\ \A k \in 1..Len(leaves) : DisjointSegments(leaves[k]))
    /\ [][RecursionOnlyForOtherTypes]_vars

\* the host's scene is updated: the step from the end of a child's traversal
\* to the delay
Pushes == pc = "traverse" /\ pc' = "delay"

\* updateScene calls made for the current child
ScenePushes == {k \in 1..Len(calls) : calls[k].fn = "updateScene"}

\* the part of the scene that does not come from this pass
ExistingPart == SubSeq(scene, 1, Len(scene) - Len(elements))

IsPrefix(p, q) == Len(p) <= Len(q) /\ SubSeq(q, 1, Len(p)) = p

\* C19: incremental scene accumulation: the scene pushed after the k-th
\* top-level child is the elements that existed at the start of the pass
\* followed by the converted primitives of children 1..k in document order;
\* every push extends the previous push as a prefix, exactly one push is made
\* per top-level child, and the returned sequence is the concatenation of
\* all children's primitives in document order
C19_SceneAccumulation ==
    /\ [](pc = "loop" /\ childIdx = 0 => scene = accumulatedElements /\ elements = <<>>)
    /\ [](pc \in {"delay", "loop", "returned"} =>
            /\ Len(scene) >= Len(elements)
            /\ scene = ExistingPart \o [k \in 1..Len(elements) |-> [skeleton |-> elements[k]]]
            /\ ExistingPart \in {<<>>, <<ExistingShape>>})
    /\ [](pc = "delay" => Cardinality(ScenePushes) = 1)
    /\ [](pc = "returned" => childIdx = Len(tree) /\ Len(yAtStart) = Len(tree))
    /\ [][/\ (Pushes =>
                /\ ChildDone
                /\ elements' = elements \o nodeElements
                /\ scene' = scene \o [k \in 1..Len(nodeElements) |->
                                          [skeleton |-> nodeElements[k]]]
                /\ IsPrefix(scene, scene')
                /\ ExistingPart' = ExistingPart)
          /\ (scene' # scene => Pushes)
          /\ (elements' # elements => ChildDone /\ elements' = elements \o nodeElements)
          /\ (childIdx' # childIdx => pc = "loop" /\ childIdx' = childIdx + 1)]_vars

\* two children with primitives have been walked on top of an existing
\* element: the scene holds the existing element, then the first child's
\* element, then the second child's
C19_Witness ==
    /\ pc = "delay"
    /\ childIdx = 2
    /\ tree = <<Heading(1, "Title"), Heading(2, "Next")>>
    /\ Len(elements) = 2
    /\ scene = <<ExistingShape, [skeleton |-> elements[1]], [skeleton |-> elements[2]]>>
    /\ elements[1].text = "Title" /\ elements[2].text = "Next"

\* a step of the traversal that makes an awaited call (the rasterizer, the
\* diagram parser); the host calls after the traversal are not awaited
Suspends == pc = "traverse" /\ agenda # <<>> /\ Len(calls') > Len(calls)

IsSuffix(p, q) == Len(p) <= Len(q) /\ SubSeq(q, Len(q) - Len(p) + 1, Len(q)) = p

\* what is waiting is ordered innermost first: everything a node has left
\* to do stands before its next sibling
InnermostFirst ==
    \A i, j \in 1..Len(agenda) : i < j => agenda[i].depth >= agenda[j].depth

\* C20: sequential traversal within a pass: at every suspension point at most
\* one node is in the middle of being processed, and a node's processing,
\* with its awaited calls and cursor advances, completes before its next
\* sibling reads currentY: a step works on the head of the agenda only and
\* leaves every waiting sibling untouched behind whatever the node still has
\* to do, nothing is waiting during the delay between sections, and the
\* next top-level child starts from an empty agenda
C20_SequentialTraversal ==
    /\ [](pc = "traverse" => InnermostFirst)
    /\ [](pc \in {"loop", "delay", "returned"} => agenda = <<>>)
    /\ [][/\ (pc = "traverse" /\ agenda # <<>> /\ agenda' # agenda =>
                /\ IsSuffix(Tail(agenda), agenda')
                /\ \A k \in 1..(Len(agenda') - Len(Tail(agenda))) :
                       agenda'[k].depth >= Head(agenda).depth)
          /\ (Suspends => IsSuffix(Tail(agenda), agenda') /\ pc' \in {"traverse", "thrown"})
          /\ (currentY' # currentY \/ nodeElements' # nodeElements =>
                \/ pc = "loop" /\ pc' = "traverse" /\ agenda = <<>>
                \/ pc = "traverse" /\ agenda # <<>> /\ IsSuffix(Tail(agenda), agenda'))]_vars

\* the inner quote's paragraph has been emitted and the cursor advanced, and
\* only then is its parent's next sibling at the head of the agenda
C20_Witness ==
    /\ pc = "traverse"
    /\ agenda = <<NodeItem(Paragraph(<<Text("outer")>>), 1)>>
    /\ Len(nodeElements) = 1
    /\ nodeElements[1].text = "inner"
    /\ currentY > yAtStart[childIdx]

\* the step hands a table's markdown to the table formatter
FormatsTable ==
    /\ AtNode({"table", "text"})
    /\ Len(calls') > Len(calls)
    /\ calls'[Len(calls')].fn = "createVisualTableElements"

AddedRectangles == {Added[k] : k \in {n \in 1..Len(Added) : Added[n].type = "rectangle"}}

\* the rows of the added table, each as its top edge and its height
AddedRows == {<<e.y, e.height>> : e \in AddedRectangles}

RECURSIVE SumOfHeights(_)
SumOfHeights(rows) ==
    IF rows = {} THEN 0
    ELSE LET row == CHOOSE r \in rows : TRUE
         IN row[2] + SumOfHeights(rows \ {row})

\* C23: table cursor advance: after a table node or a table-placeholder text
\* node for which the table formatter emitted rectangles, currentY has grown
\* by exactly the sum of the table's row heights plus 30, so the cursor lies
\* 30 below the bottom edge of the last row; when no rectangle resulted the
\* cursor advances by the fixed fallback 200
C23_TableAdvance ==
    [][FormatsTable =>
          IF AddedRectangles # {}
          THEN /\ currentY' = currentY + SumOfHeights(AddedRows) + 30
               /\ currentY' = SetMax({e.y + e.height : e \in AddedRectangles}) + 30
               /\ SetMin({e.y : e \in AddedRectangles}) = currentY
          ELSE /\ Added = <<>>
               /\ currentY' = currentY + 200]_vars

\* the two-row sample table has been walked: eight primitives, and the cursor
\* 30 below the two rows of 60
C23_Witness ==
    /\ ChildDone
    /\ CurrentChild = TableNode(SampleTable)
    /\ Len(nodeElements) = 8
    /\ currentY = ChildStartY + 60 + 60 + 30

\* what a step on a list item does, all but the prefix: one text primitive
\* ending in the item's flattened text, the cursor 30 further, and the item's
\* children not put on the agenda
OneItemPrimitive ==
    /\ Len(Added) = 1
    /\ Added[1].type = "text"
    /\ Added[1].y = currentY
    /\ EndsWith(Added[1].text, Concat(TextLeaves(Head(agenda).node)))
    /\ currentY' = currentY + 30
    /\ agenda' = Tail(agenda)

ItemPrefix ==
    SubSeq(Added[1].text, 1,
           Len(Added[1].text) - Len(Concat(TextLeaves(Head(agenda).node))))

ItemParent == Head(agenda).node.parent

OrderedParent == ItemParent.present /\ ItemParent.ordered

AtPlaceholder == AtNode({"text"}) /\ TableBlockMatch(Head(agenda).node.value) # 0

PlaceholderIndex ==
    ParseIntFrom(Head(agenda).node.value, TableBlockMatch(Head(agenda).node.value), 0)

NewCalls == SubSeq(calls', Len(calls) + 1, Len(calls'))

PlaceholderMarkdown == ConvertHtmlTableToMarkdown(tableBlocks[PlaceholderIndex + 1])

\* C25: table placeholder substitution: a standalone text node whose value
\* contains TABLE_BLOCK_n is never emitted as literal text; when n is below
\* the number of table blocks the walker converts block n with
\* convertHtmlTableToMarkdown and emits the table createVisualTableElements
\* builds at the current cursor, or the table-error fallback text; when n is
\* not below it, nothing is emitted and the cursor stays
C25_PlaceholderSubstitution ==
    [][AtPlaceholder =>
          /\ \A k \in 1..Len(Added) : ~Includes(Added[k].text, "TABLE_BLOCK_")
          /\ IF PlaceholderIndex < Len(tableBlocks)
             THEN /\ NewCalls # <<>>
                  /\ NewCalls[1] = Call("convertHtmlTableToMarkdown", PlaceholderMarkdown)
                  /\ \/ /\ Len(NewCalls) = 2
                        /\ NewCalls[2] = Call("createVisualTableElements",
                                               PlaceholderMarkdown)
                        /\ Added = CreateVisualTableElements(PlaceholderMarkdown, ItemX,
                                                             currentY)
                     \/ /\ Len(NewCalls) = 1
                        /\ Len(Added) = 1
                        /\ Added[1].type = "text"
                        /\ Added[1].text = "Error: Could not parse HTML table"
                        /\ Added[1].y = currentY
             ELSE NoOp /\ NewCalls = <<>>]_vars

\* the placeholder of block 0 has been replaced by the sample table's eight
\* primitives, the first at the cursor the child started from
C25_Witness ==
    /\ ChildDone
    /\ CurrentChild = Text("__TABLE_BLOCK_0__")
    /\ Called("convertHtmlTableToMarkdown")
    /\ Called("createVisualTableElements")
    /\ Len(nodeElements) = 8
    /\ nodeElements[1].type = "rectangle"
    /\ nodeElements[1].y = ChildStartY

\* the host's addFiles has accepted an asset for the image
Registered(image) ==
    \E k \in 1..Len(files) :
        /\ files[k].id = image.fileId
        /\ files[k].dataURL # ""
        /\ files[k].mimeType = "image/svg+xml"

\* C26: image assets are registered: in every reachable state each image
\* primitive in the walker's output has a file-asset record with the
\* primitive's fileId, a non-empty dataURL and mimeType image/svg+xml that the
\* host's addFiles accepted; no image stays in the output without its asset
C26_ImagesRegistered ==
    \A k \in 1..Len(Emitted) : Emitted[k].type = "image" => Registered(Emitted[k])

\* the converter returned and none of its primitives was placed: it
\* returned no primitive, or a result without an elements field
DiagramEmpty ==
    /\ AtDiagram
    /\ NewCalls # <<>>
    /\ NewCalls[Len(NewCalls)] = Call("graphToExcalidraw", "ok")
    /\ ~DiagramPlaced

EmptyPlaceholder(e) ==
    /\ e.type = "text"
    /\ e.text = "Mermaid diagram (no elements generated)"
    /\ e.x = origin.x + 20 * Head(agenda).depth
    /\ e.y = currentY

\* C28: when the diagram converter returns no primitive (or a result without
\* an elements field) for a diagram block, the walker adds exactly one
\* placeholder text primitive at the block's position and moves the cursor
\* down by 50
C28_EmptyDiagramPlaceholder ==
    [][DiagramEmpty =>
          /\ Len(Added) = 1
          /\ EmptyPlaceholder(Added[1])
          /\ currentY' = currentY + 50]_vars

\* a diagram block whose converter returned nothing has been handled: the
\* placeholder is its only primitive and the cursor is 50 lower
C28_Witness ==
    /\ ChildDone
    /\ CurrentChild.type = "html"
    /\ Len(nodeElements) = 1
    /\ nodeElements[1].id = "mermaid-empty"
    /\ nodeElements[1].y = ChildStartY
    /\ currentY = ChildStartY + 50

(***************************************************************************)
(* The typesetting engine's lazy initialization: convertLatexToImage       *)
(* (markdown.ts 11-48) and loadMathJax (284-309).  A render call checks    *)
(* window.MathJax; when it is unset, loadMathJax appends a loader script   *)
(* to the head and the call waits for the script's onload or onerror.      *)
(* Calls are async functions, so a call may start while another waits.     *)
(***************************************************************************)
MaxRenders == 3

RenderEquations == {"x", "E=mc^2"}

\* what happens after the engine is available, lines 17-44
TypesetOutcomes == {"svg", "noSvg", "typesetThrows", "serializeThrows"}

\* lines 26-48: the container is removed on the two paths that return from
\* the try (34, 43), not in the catch
StaysInBody(out) == out \in {"typesetThrows", "serializeThrows"}

\* loadMathJax, lines 285-308: nothing to load when the global is set,
\* otherwise one more script in the head
LoadMathJax(loaded, scripts) == IF loaded THEN scripts ELSE scripts + 1

\* lines 11-16: the call starts; it loads the engine when the global is unset
ConvertLatexToImageCall ==
    /\ Len(renderPc) < MaxRenders
    /\ IF ~windowMathJax
       THEN /\ headScripts' = LoadMathJax(windowMathJax, headScripts)
            /\ renderPc' = Append(renderPc, "loading")
       ELSE /\ headScripts' = headScripts
            /\ renderPc' = Append(renderPc, "typesetting")
    /\ renderResult' = Append(renderResult, "")
    /\ tempDivs' = Append(tempDivs, windowMathJax)
    /\ UNCHANGED <<windowMathJax>>
    /\ UNCHANGED <<segVars, merVars, tabVars, walkVars, capVars, retryVars, overlapVars,
                   sharedVars, procVars, storeVars>>

\* lines 294-305: the script's onload sets window.MathJax and resolves
ScriptOnload(c) ==
    /\ renderPc[c] = "loading"
    /\ windowMathJax' = TRUE
    /\ renderPc' = [renderPc EXCEPT ![c] = "typesetting"]
    /\ tempDivs' = [tempDivs EXCEPT ![c] = TRUE]
    /\ UNCHANGED <<headScripts, renderResult>>
    /\ UNCHANGED <<segVars, merVars, tabVars, walkVars, capVars, retryVars, overlapVars,
                   sharedVars, procVars, storeVars>>

\* line 306 then 45-48: onerror rejects, the call's catch returns ''
ScriptOnerror(c) ==
    /\ renderPc[c] = "loading"
    /\ renderPc' = [renderPc EXCEPT ![c] = "returned"]
    /\ renderResult' = [renderResult EXCEPT ![c] = ConvertLatexToImage("", "loadFails")]
    /\ tempDivs' = tempDivs
    /\ UNCHANGED <<windowMathJax, headScripts>>
    /\ UNCHANGED <<segVars, merVars, tabVars, walkVars, capVars, retryVars, overlapVars,
                   sharedVars, procVars, storeVars>>

\* lines 17-48: typeset, serialize, return the data URL or ''
TypesetAndReturn(c) ==
    /\ renderPc[c] = "typesetting"
    /\ \E latexCode \in RenderEquations, out \in TypesetOutcomes :
           /\ renderResult' = [renderResult EXCEPT ![c] = ConvertLatexToImage(latexCode, out)]
           /\ tempDivs' = [tempDivs EXCEPT ![c] = StaysInBody(out)]
    /\ renderPc' = [renderPc EXCEPT ![c] = "returned"]
    /\ UNCHANGED <<windowMathJax, headScripts>>
    /\ UNCHANGED <<segVars, merVars, tabVars, walkVars, capVars, retryVars, overlapVars,
                   sharedVars, procVars, storeVars>>

InitEngine ==
    /\ EngineIdle
    /\ SegmentIdle
    /\ MermaidIdle
    /\ TableIdle
    /\ WalkerIdle
    /\ ExtractionIdle
    /\ RetryIdle
    /\ OverlapIdle
    /\ SharedIdle
    /\ ProcessingIdle
    /\ StoreIdle
    /\ DocumentIdle

NextEngine ==
    \/ ConvertLatexToImageCall
    \/ \E c \in 1..Len(renderPc) : ScriptOnload(c)
    \/ \E c \in 1..Len(renderPc) : ScriptOnerror(c)
    \/ \E c \in 1..Len(renderPc) : TypesetAndReturn(c)

SpecEngine == InitEngine /\ [][NextEngine]_vars

\* C18: single engine initialization: over any sequence of render calls,
\* including calls made after an initialization attempt failed, the loader
\* script is injected exactly once: as soon as a call has been made there is
\* one loader script in the head, and never a second one
C18_SingleInitialization ==
    renderPc # <<>> => headScripts = 1

(***************************************************************************)
(* Diagram code extraction: processMermaidCode of diagrams.ts.  The text   *)
(* is cut out of its fence, its labels are normalised, a diagram type is   *)
(* put in front when none is there, repeated lines are dropped, and the    *)
(* result is refused when it is over the size caps.                        *)
(***************************************************************************)
MAX_LINES == 200
MAX_CHARS == 5000

Abs(n) == IF n < 0 THEN 0 - n ELSE n

NearestTo(S, m) == CHOOSE p \in S : \A q \in S : Abs(p - m) <= Abs(q - m)

RECURSIVE SplitLines(_)
RECURSIVE SplitLinesAt(_, _)
\* code.split("\n"); halved at the newline nearest the middle
SplitLinesAt(s, p) ==
    SplitLines(SubSeq(s, 1, p - 1)) \o SplitLines(SubSeq(s, p + 1, Len(s)))

SplitLines(s) ==
    LET nl == {i \in 1..Len(s) : Char(s, i) = "\n"}
    IN IF nl = {} THEN <<s>> ELSE SplitLinesAt(s, NearestTo(nl, (Len(s) + 1) \div 2))

RECURSIVE JoinRange(_, _, _)
JoinRange(ls, lo, hi) ==
    IF lo > hi THEN ""
    ELSE IF lo = hi THEN ls[lo]
    ELSE JoinRange(ls, lo, (lo + hi) \div 2) \o "\n" \o JoinRange(ls, (lo + hi) \div 2 + 1, hi)

\* lines.join("\n")
JoinLines(ls) == JoinRange(ls, 1, Len(ls))

\* the backquote; strings here cannot hold one, so a tilde stands for it
Backquote == "~"

Fence == Backquote \o Backquote \o Backquote

\* step 1: the text between the first pair of fences, else the whole input
ClosingFence(input, from) == IndexOfFrom(input, Fence, from)

AfterOpening(input, i) ==
    IF MatchesAt(input, "mermaid", i + 3) /\ ClosingFence(input, i + 10) # 0
    THEN i + 10 ELSE i + 3

ExtractFenced(input, i) ==
    IF i = 0 \/ ClosingFence(input, i + 3) = 0 THEN Trim(input)
    ELSE Trim(SubSeq(input, AfterOpening(input, i),
                     ClosingFence(input, AfterOpening(input, i)) - 1))

RECURSIVE BracesToBrackets(_, _)
RECURSIVE BracesAt(_, _, _)
\* step 2: {text} becomes [text]
ClosingBrace(s, k) == IF k = 0 THEN 0 ELSE IndexOfFrom(s, "}", k + 1)

BracesAt(s, i, k) ==
    IF ClosingBrace(s, k) = 0 THEN SubSeq(s, i, Len(s))
    ELSE SubSeq(s, i, k - 1) \o "[" \o SubSeq(s, k + 1, ClosingBrace(s, k) - 1) \o "]"
         \o BracesToBrackets(s, ClosingBrace(s, k) + 1)

BracesToBrackets(s, i) == BracesAt(s, i, IndexOfFrom(s, "{", i))

RECURSIVE QuoteLabels(_, _)
RECURSIVE QuoteLabelAt(_, _, _, _)
\* step 3: a bracketed label without quotes or brackets inside is trimmed and quoted
HasQuote(s) == \E n \in 1..Len(s) : Char(s, n) \in {"\"", "'"}

QuoteLabelAt(s, i, k, j) ==
    IF k = 0 THEN SubSeq(s, i, Len(s))
    ELSE IF j = 0 \/ j = k + 1 \/ HasQuote(SubSeq(s, k + 1, j - 1))
    THEN SubSeq(s, i, k) \o QuoteLabels(s, k + 1)
    ELSE SubSeq(s, i, k - 1) \o "[\"" \o Trim(SubSeq(s, k + 1, j - 1)) \o "\"]"
         \o QuoteLabels(s, j + 1)

QuoteLabelFrom(s, i, k) ==
    QuoteLabelAt(s, i, k, IF k = 0 THEN 0 ELSE IndexOfFrom(s, "]", k + 1))

QuoteLabels(s, i) == QuoteLabelFrom(s, i, IndexOfFrom(s, "[", i))

RECURSIVE SafeIdChars(_, _)
\* step 4: an id at the start of a line keeps only letters, digits and underscores
SafeIdChars(id, n) ==
    IF n > Len(id) THEN ""
    ELSE (IF Char(id, n) \in WordChars THEN Char(id, n) ELSE "_") \o SafeIdChars(id, n + 1)

IdEnd(line) ==
    LET stops == {n \in 1..Len(line) : IsSpace(Char(line, n)) \/ Char(line, n) \in {"[", "]"}}
    IN IF stops = {} THEN 0 ELSE CHOOSE n \in stops : \A m \in stops : n <= m

SafeIdLineAt(line, p) ==
    IF p > 1 /\ Char(line, p) = "["
    THEN SafeIdChars(SubSeq(line, 1, p - 1), 1) \o SubSeq(line, p, Len(line))
    ELSE line

SafeIdLine(line) == SafeIdLineAt(line, IdEnd(line))

SafeIdsOf(ls) == JoinLines([n \in 1..Len(ls) |-> SafeIdLine(ls[n])])

SafeIds(s) == SafeIdsOf(SplitLines(s))

RECURSIVE EscapeLabels(_, _)
RECURSIVE EscapeLabelAt(_, _, _, _)
\* step 5: & < > inside a quoted label become entities
SafeLabel(label) ==
    ReplaceAll(ReplaceAll(ReplaceAll(label, "&", "&amp;"), "<", "&lt;"), ">", "&gt;")

EscapeLabelAt(s, i, k, q) ==
    IF k = 0 THEN SubSeq(s, i, Len(s))
    ELSE IF q = 0 \/ Char(s, q + 1) # "]"
    THEN SubSeq(s, i, k) \o EscapeLabels(s, k + 1)
    ELSE SubSeq(s, i, k - 1) \o "[\"" \o SafeLabel(SubSeq(s, k + 2, q - 1)) \o "\"]"
         \o EscapeLabels(s, q + 2)

EscapeLabelFrom(s, i, k) ==
    EscapeLabelAt(s, i, k, IF k = 0 THEN 0 ELSE IndexOfFrom(s, "\"", k + 2))

EscapeLabels(s, i) == EscapeLabelFrom(s, i, IndexOfFrom(s, "[\"", i))

\* step 6: a line that opens with a diagram type, else the default type in front
DiagramTypes ==
    {"flowchart", "graph", "sequenceDiagram", "classDiagram", "erDiagram", "gantt", "journey"}

ValidStartIn(ls) == \E n \in 1..Len(ls) : \E t \in DiagramTypes : StartsWith(ls[n], t)

EnsureDiagramType(s) ==
    IF ValidStartIn(SplitLines(s)) THEN s ELSE "flowchart TD\n" \o s

\* step 7: a line whose trimmed text was seen before is dropped
FirstOfItsKind(ts, n) == \A m \in 1..(n - 1) : ts[m] # ts[n]

KeptLines(ls, ts) ==
    LET numbered == [n \in 1..Len(ls) |-> <<n, ls[n]>>]
        Keep(pair) == FirstOfItsKind(ts, pair[1])
        kept == SelectSeq(numbered, Keep)
    IN [n \in 1..Len(kept) |-> kept[n][2]]

RemoveDuplicatesOf(ls) == JoinLines(KeptLines(ls, [n \in 1..Len(ls) |-> Trim(ls[n])]))

RemoveDuplicateLines(s) == RemoveDuplicatesOf(SplitLines(s))

CodeLines(s) == Len(SplitLines(s))

TooLargeAtCap(code) == CodeLines(code) >= MAX_LINES \/ Len(code) >= MAX_CHARS

\* step 8: the size caps
TooLarge(code) == CodeLines(code) > MAX_LINES \/ Len(code) > MAX_CHARS

\* steps 1 to 7
Deduplicated(input) ==
    RemoveDuplicateLines(EnsureDiagramType(EscapeLabels(SafeIds(QuoteLabels(
        BracesToBrackets(ExtractFenced(input, IndexOfFrom(input, Fence, 1)), 1), 1)), 1)))

Checked(code) ==
    IF TooLarge(code) THEN [thrown |-> TRUE, code |-> ""]
    ELSE [thrown |-> FALSE, code |-> Trim(code)]

ProcessMermaidCode(input) == Checked(Deduplicated(input))

(***************************************************************************)
(* The texts it is given: a diagram of `nodes` node lines, the first of    *)
(* them plain, braced or quoted, with or without a diagram type, a fence,  *)
(* a repeated last line, and one long line of `filler` characters; the     *)
(* sizes sit on both sides of the two caps.                                *)
(***************************************************************************)
MaxOver == 1

RECURSIVE Repeated(_, _)
Repeated(s, n) ==
    IF n = 0 THEN ""
    ELSE IF n % 2 = 0 THEN Repeated(s \o s, n \div 2)
    ELSE s \o Repeated(s \o s, n \div 2)

FirstLines == <<"a0", "a-0{x & y} --> b", "b.1[\"p<q\"]">>

NodeLine(first, n) == IF n = 1 THEN FirstLines[first] ELSE "n" \o ToString(n)

DiagramLines(d) ==
    (IF d.typed THEN <<"graph TD">> ELSE <<>>)
    \o [n \in 1..d.nodes |-> NodeLine(d.first, n)]
    \o (IF d.filler > 0 THEN <<Repeated("x", d.filler)>> ELSE <<>>)
    \o (IF d.repeated THEN <<"  " \o NodeLine(d.first, d.nodes) \o " ">> ELSE <<>>)

DiagramText(d) ==
    IF d.fenced
    THEN "Here it is:\n" \o Fence \o "mermaid\n" \o JoinLines(DiagramLines(d)) \o "\n" \o Fence \o "\n"
    ELSE JoinLines(DiagramLines(d))

\* the type line and node lines leave this many characters under the cap
HeaderChars == Len("graph TD\na0\n")

Diagrams ==
    [typed : BOOLEAN, fenced : BOOLEAN, repeated : BOOLEAN, first : 1..Len(FirstLines),
     nodes : {1, 2} \cup ((MAX_LINES - 1 - MaxOver)..(MAX_LINES - 1 + MaxOver)),
     filler : {0}]
    \cup
    [typed : BOOLEAN, fenced : BOOLEAN, repeated : BOOLEAN, first : 1..Len(FirstLines),
     nodes : {1},
     filler : (MAX_CHARS - HeaderChars - MaxOver)..(MAX_CHARS - HeaderChars + MaxOver)]

DiagramInputs == {DiagramText(d) : d \in Diagrams}

InitExtraction ==
    /\ diagramInput \in DiagramInputs
    /\ diagramResult = NoResult
    /\ diagramPc = "input"
    /\ SegmentIdle
    /\ MermaidIdle
    /\ TableIdle
    /\ WalkerIdle
    /\ EngineIdle
    /\ RetryIdle
    /\ OverlapIdle
    /\ SharedIdle
    /\ ProcessingIdle
    /\ StoreIdle
    /\ DocumentIdle

\* processMermaidCode(input)
CallProcessMermaidCode ==
    /\ diagramPc = "input"
    /\ diagramResult' = ProcessMermaidCode(diagramInput)
    /\ diagramPc' = "done"
    /\ UNCHANGED <<diagramInput, segVars, merVars, tabVars, walkVars, engVars, retryVars, overlapVars,
                   sharedVars, procVars, storeVars, domVars>>

NextExtraction == CallProcessMermaidCode

SpecExtraction == InitExtraction /\ [][NextExtraction]_vars

SizeCapsHold(result, code) ==
    /\ result.thrown <=> (CodeLines(code) > MAX_LINES \/ Len(code) > MAX_CHARS)
    /\ ~result.thrown =>
        /\ result.code = Trim(code)
        /\ CodeLines(result.code) <= MAX_LINES
        /\ Len(result.code) <= MAX_CHARS

\* C27: processMermaidCode throws exactly when the text after the removal of
\* repeated lines has more than 200 lines or more than 5000 characters;
\* otherwise it returns that text, trimmed and never cut short, which then has
\* at most 200 lines and at most 5000 characters
C27_SizeCapsFatal ==
    diagramPc = "done" => SizeCapsHold(diagramResult, Deduplicated(diagramInput))

\* a text one line over the cap was refused
C27_Witness ==
    /\ diagramPc = "done"
    /\ diagramResult.thrown
    /\ CodeLines(Deduplicated(diagramInput)) = MAX_LINES + 1

(***************************************************************************)
(* The AI service's retry over its API keys: executeWithRetry of           *)
(* aiService.ts.  One call invokes the operation, and on a rate-limit      *)
(* error rotates to the next key and invokes it again; calls follow one    *)
(* another and the key index outlives a call.                              *)
(***************************************************************************)
MaxKeys == 3
MaxRetryCalls == 2

KeyLists == {[n \in 1..k |-> "key" \o ToString(n)] : k \in 1..MaxKeys}

\* what the operation can reject with
OperationErrors ==
    {[status |-> 429, message |-> "Too Many Requests", code |-> ""],
     [status |-> 0, message |-> "Rate Limit reached for model", code |-> ""],
     [status |-> 0, message |-> "quota", code |-> "rate_limit_exceeded"],
     [status |-> 500, message |-> "Internal Server Error", code |-> ""],
     [status |-> 401, message |-> "Invalid API Key", code |-> "invalid_api_key"]}

ExhaustedError ==
    [status |-> 0, message |-> "All API keys exhausted due to rate limits", code |-> ""]

\* lines 188-192
IsRateLimitError(error) ==
    \/ error.status = 429
    \/ Includes(Lower(error.message), "rate limit")
    \/ error.code = "rate_limit_exceeded"

\* a rotation that stays on the key
RotateApiKeyStay(index, keys) == index

\* lines 178-186: the next key, cyclically
RotateApiKey(index, keys) == (index + 1) % Len(keys)

Rejected(error) == [kind |-> "rejected", error |-> error]

Returned == [kind |-> "returned", error |-> NoError]

\* lines 198-201: the loop's test, then the operation is invoked with the
\* client of the current key; past the loop the exhaustion error is thrown
EnterLoop(n, index, before) ==
    IF n < Len(apiKeys)
    THEN /\ retryPc' = "awaiting"
         /\ invoked' = Append(before, index)
         /\ retryResult' = Unsettled
    ELSE /\ retryPc' = "settled"
         /\ invoked' = before
         /\ retryResult' = Rejected(ExhaustedError)

InitRetry ==
    /\ apiKeys \in KeyLists
    /\ currentKeyIndex = 0
    /\ attempts = 0
    /\ retryPc = "idle"
    /\ retryResult = Unsettled
    /\ invoked = <<>>
    /\ failures = <<>>
    /\ rotated = 0
    /\ retryCalls = 0
    /\ SegmentIdle
    /\ MermaidIdle
    /\ TableIdle
    /\ WalkerIdle
    /\ EngineIdle
    /\ ExtractionIdle
    /\ OverlapIdle
    /\ SharedIdle
    /\ ProcessingIdle
    /\ StoreIdle
    /\ DocumentIdle

\* executeWithRetry(operation), up to its first await
CallExecuteWithRetry ==
    /\ retryPc \in {"idle", "settled"}
    /\ retryCalls < MaxRetryCalls
    /\ retryCalls' = retryCalls + 1
    /\ attempts' = 0
    /\ rotated' = 0
    /\ failures' = <<>>
    /\ EnterLoop(0, currentKeyIndex, <<>>)
    /\ UNCHANGED <<apiKeys, currentKeyIndex>>
    /\ UNCHANGED <<segVars, merVars, tabVars, walkVars, engVars, capVars, overlapVars, sharedVars,
                   procVars, storeVars, domVars>>

\* the awaited operation resolves: line 201 returns its value
OperationResolves ==
    /\ retryPc = "awaiting"
    /\ retryPc' = "settled"
    /\ retryResult' = Returned
    /\ UNCHANGED <<apiKeys, currentKeyIndex, attempts, invoked, failures, rotated, retryCalls>>
    /\ UNCHANGED <<segVars, merVars, tabVars, walkVars, engVars, capVars, overlapVars, sharedVars,
                   procVars, storeVars, domVars>>

\* the awaited operation rejects: the catch of lines 202-212, and the loop again
OperationRejects(error) ==
    /\ retryPc = "awaiting"
    /\ failures' = Append(failures, error)
    /\ IF IsRateLimitError(error) /\ attempts < Len(apiKeys) - 1
       THEN /\ currentKeyIndex' = RotateApiKey(currentKeyIndex, apiKeys)
            /\ rotated' = rotated + 1
            /\ attempts' = attempts + 1
            /\ EnterLoop(attempts + 1, RotateApiKey(currentKeyIndex, apiKeys), invoked)
       ELSE /\ retryPc' = "settled"
            /\ retryResult' = Rejected(error)
            /\ UNCHANGED <<currentKeyIndex, rotated, attempts, invoked>>
    /\ UNCHANGED <<apiKeys, retryCalls>>
    /\ UNCHANGED <<segVars, merVars, tabVars, walkVars, engVars, capVars, overlapVars, sharedVars,
                   procVars, storeVars, domVars>>

NextRetry ==
    \/ CallExecuteWithRetry
    \/ OperationResolves
    \/ \E error \in OperationErrors : OperationRejects(error)

SpecRetry == InitRetry /\ [][NextRetry]_vars

AllRateLimited == \A k \in 1..Len(failures) : IsRateLimitError(failures[k])

\* C29 as stated: a call of which every attempt failed with a rate-limit
\* error rejects with 'All API keys exhausted due to rate limits'
C29_ExhaustionError ==
    (retryPc = "settled" /\ retryResult.kind = "rejected" /\ AllRateLimited)
        => retryResult.error = ExhaustedError

Distinct(q) == \A a, b \in 1..Len(q) : a # b => q[a] # q[b]

\* C30: within one executeWithRetry call the operation is invoked at most
\* once per configured key; every invocation after the first follows exactly
\* one rotation, to the cyclically next key, so that no key is used twice; and
\* an error that is not a rate-limit error is rethrown at once, with no
\* rotation and no further invocation
C30_BoundedRetry ==
    retryPc # "idle" =>
        /\ Len(invoked) <= Len(apiKeys)
        /\ rotated = Len(invoked) - 1
        /\ \A k \in 2..Len(invoked) : invoked[k] = (invoked[k - 1] + 1) % Len(apiKeys)
        /\ invoked[Len(invoked)] = currentKeyIndex
        /\ Distinct(invoked)
        /\ (retryPc = "settled" /\ retryResult.kind = "rejected") =>
              /\ Len(failures) = Len(invoked)
              /\ retryResult.error = failures[Len(failures)]
        /\ \A k \in 1..Len(failures) :
              ~IsRateLimitError(failures[k]) =>
                  /\ k = Len(failures)
                  /\ retryPc = "settled"
                  /\ retryResult = Rejected(failures[k])

\* a second call, begun on the key the first one ended on, went through all
\* three keys and wrapped around
C30_Witness ==
    /\ retryCalls = 2
    /\ Len(apiKeys) = 3
    /\ invoked = <<1, 2, 0>>
    /\ retryPc = "settled"
    /\ retryResult.kind = "rejected"

(***************************************************************************)
(* Overlapping executeWithRetry calls: the per-category generations of     *)
(* processWithAI are started together and awaited with Promise.all, so     *)
(* several calls run on the one AIService.  apiKeys, currentKeyIndex and   *)
(* the client are the service's; attempts is each call's own.              *)
(***************************************************************************)
MaxOverlap == 2

RetryCall(at, n, used, failed, result) ==
    [pc |-> at, attempts |-> n, invoked |-> used, failures |-> failed, result |-> result]

\* lines 198-201 for one call: the operation is invoked with the client the
\* service holds at that moment
Invoke(n, index, used, failed) ==
    IF n < Len(apiKeys)
    THEN RetryCall("awaiting", n, Append(used, index), failed, Unsettled)
    ELSE RetryCall("settled", n, used, failed, Rejected(ExhaustedError))

\* lines 202-212: does the catch rotate and go round again
Retries(call, error) == IsRateLimitError(error) /\ call.attempts < Len(apiKeys) - 1

InitOverlap ==
    /\ apiKeys \in KeyLists
    /\ currentKeyIndex = 0
    /\ running = <<>>
    /\ attempts = 0
    /\ retryPc = "idle"
    /\ retryResult = Unsettled
    /\ invoked = <<>>
    /\ failures = <<>>
    /\ rotated = 0
    /\ retryCalls = 0
    /\ SegmentIdle
    /\ MermaidIdle
    /\ TableIdle
    /\ WalkerIdle
    /\ EngineIdle
    /\ ExtractionIdle
    /\ SharedIdle
    /\ ProcessingIdle
    /\ StoreIdle
    /\ DocumentIdle

\* what an operation rejects with here: a rate-limit error or another one
OverlapErrors == {e \in OperationErrors : e.status \in {429, 500}}

\* one more category's generation calls executeWithRetry
StartRetryCall ==
    /\ Len(running) < MaxOverlap
    /\ running' = Append(running, Invoke(0, currentKeyIndex, <<>>, <<>>))
    /\ UNCHANGED <<apiKeys, currentKeyIndex, attempts, retryPc, retryResult, invoked,
                   failures, rotated, retryCalls>>
    /\ UNCHANGED <<segVars, merVars, tabVars, walkVars, engVars, capVars, sharedVars, procVars,
                   storeVars, domVars>>

\* the operation of call c resolves
RetryCallResolves(c) ==
    /\ running[c].pc = "awaiting"
    /\ running' = [running EXCEPT ![c].pc = "settled", ![c].result = Returned]
    /\ UNCHANGED <<apiKeys, currentKeyIndex, attempts, retryPc, retryResult, invoked,
                   failures, rotated, retryCalls>>
    /\ UNCHANGED <<segVars, merVars, tabVars, walkVars, engVars, capVars, sharedVars, procVars,
                   storeVars, domVars>>

\* the operation of call c rejects: its catch, and its loop again
RetryCallRejects(c, error) ==
    /\ running[c].pc = "awaiting"
    /\ IF Retries(running[c], error)
       THEN /\ currentKeyIndex' = RotateApiKey(currentKeyIndex, apiKeys)
            /\ running' = [running EXCEPT ![c] =
                              Invoke(running[c].attempts + 1,
                                     RotateApiKey(currentKeyIndex, apiKeys),
                                     running[c].invoked,
                                     Append(running[c].failures, error))]
       ELSE /\ currentKeyIndex' = currentKeyIndex
            /\ running' = [running EXCEPT ![c] =
                              RetryCall("settled", running[c].attempts, running[c].invoked,
                                        Append(running[c].failures, error), Rejected(error))]
    /\ UNCHANGED <<apiKeys, attempts, retryPc, retryResult, invoked, failures, rotated,
                   retryCalls>>
    /\ UNCHANGED <<segVars, merVars, tabVars, walkVars, engVars, capVars, sharedVars, procVars,
                   storeVars, domVars>>

NextOverlap ==
    \/ StartRetryCall
    \/ \E c \in 1..Len(running) : RetryCallResolves(c)
    \/ \E c \in 1..Len(running) : \E error \in OverlapErrors : RetryCallRejects(c, error)

SpecOverlap == InitOverlap /\ [][NextOverlap]_vars

KeysOf(used) == {used[k] : k \in 1..Len(used)}

RateLimited(call) ==
    /\ call.pc = "settled"
    /\ call.result.kind = "rejected"
    /\ IsRateLimitError(call.result.error)

\* C31 as stated: a call that overlaps others rejects because of rate
\* limiting only after its operation ran under every configured key, and it
\* never ran twice under one key
C31_EveryKeyTried ==
    \A c \in 1..Len(running) :
        /\ RateLimited(running[c]) => KeysOf(running[c].invoked) = 0..(Len(apiKeys) - 1)
        /\ Distinct(running[c].invoked)

(***************************************************************************)
(* The host scene has other writers: the ExcalidrawWrapper effect appends  *)
(* a diagram once the parse begun by appendMermaidDefinition has settled,  *)
(* and the user draws.  Both run between the steps of a render pass, at    *)
(* the one-second wait after each child; each puts the scene it read, plus *)
(* its element, back with updateScene.                                     *)
(***************************************************************************)
MaxOtherWrites == 1

OtherShape(n) ==
    [skeleton |-> Prim("rectangle", "other", 300, 100 * n, 120, 60, "", 0, Black)]

\* ExcalidrawWrapper.tsx lines 45-75: [...getSceneElements(), ...new elements]
OtherWriter ==
    /\ pc = "delay"
    /\ Len(otherWrites) < MaxOtherWrites
    /\ scene' = scene \o <<OtherShape(Len(otherWrites) + 1)>>
    /\ otherWrites' = Append(otherWrites, OtherShape(Len(otherWrites) + 1))
    /\ UNCHANGED <<tree, tableBlocks, origin, pc, childIdx, agenda, currentY, elements,
                   nodeElements, accumulatedElements, files, yAtStart, calls, steps>>
    /\ UNCHANGED <<segVars, merVars, tabVars, engVars, capVars, retryVars, overlapVars, procVars,
                   storeVars, domVars>>

NextSharedScene ==
    \/ Next
    \/ OtherWriter

SpecSharedScene == InitWalk /\ [][NextSharedScene]_vars

InScene(e) == \E k \in 1..Len(scene) : scene[k] = e

\* C32 as stated: what another writer added to the scene during a render
\* pass is in the scene after every later push of the pass
C32_SceneWritesKept ==
    \A k \in 1..Len(otherWrites) : InScene(otherWrites[k])

(***************************************************************************)
(* The analysis pass: analyzeFrame exports the frame, clears the scene and *)
(* calls processWithAI, which raises the store's isProcessing, awaits the  *)
(* AI service and the render pass one after the other, and lowers the flag *)
(* in its finally.  The button that starts a pass is disabled while the    *)
(* flag is up; the flag is raised only after the export has settled.       *)
(***************************************************************************)
MaxPasses == 2

Hooks == {"full", "definitionOnly"}

\* the awaited calls of processWithAI, in order
Stages(h) ==
    IF h = "definitionOnly"
    THEN <<"analyzeImageWithContext", "generateDefinition", "convertMarkdownTreeToElements">>
    ELSE <<"analyzeImageWithContext", "generateTopicsBreakdown", "categoryPromises",
           "validateDiagramJSON", "convertMarkdownTreeToElements", "convertLatexToImage">>

\* the calls whose rejection is caught where they are awaited
CaughtInPlace ==
    {"generateDefinition", "categoryPromises", "validateDiagramJSON", "convertLatexToImage"}

Pass(at, stage) == [pc |-> at, stage |-> stage]

InProgress(p) == p.pc = "awaiting"

\* a rejection that only the catch takes, with no finally behind it
LeavesOnThrowUnreleased(flag) == flag

\* lines 240-244: the catch logs, the finally lowers the flag
LeavesOnThrow(flag) == FALSE

InitProcessing ==
    /\ isProcessing = FALSE
    /\ passes = <<>>
    /\ hook \in Hooks
    /\ SegmentIdle
    /\ MermaidIdle
    /\ TableIdle
    /\ WalkerIdle
    /\ EngineIdle
    /\ ExtractionIdle
    /\ RetryIdle
    /\ OverlapIdle
    /\ SharedIdle
    /\ StoreIdle
    /\ DocumentIdle

\* the button is clicked: analyzeFrame up to its await of exportToBlob
AnalyzeFrame ==
    /\ ~isProcessing
    /\ Len(passes) < MaxPasses
    /\ passes' = Append(passes, Pass("exporting", 0))
    /\ UNCHANGED <<isProcessing, hook>>
    /\ UNCHANGED <<segVars, merVars, tabVars, walkVars, engVars, capVars, retryVars,
                   overlapVars, sharedVars, storeVars, domVars>>

\* exportToBlob settles: on success the scene is cleared and processWithAI
\* runs up to its first await; a rejection is caught by analyzeFrame
ExportSettles(p, outcome) ==
    /\ passes[p].pc = "exporting"
    /\ IF outcome = "ok"
       THEN /\ isProcessing' = TRUE
            /\ passes' = [passes EXCEPT ![p] = Pass("awaiting", 1)]
       ELSE /\ isProcessing' = isProcessing
            /\ passes' = [passes EXCEPT ![p] = Pass("exportFailed", 0)]
    /\ UNCHANGED hook
    /\ UNCHANGED <<segVars, merVars, tabVars, walkVars, engVars, capVars, retryVars,
                   overlapVars, sharedVars, storeVars, domVars>>

\* the awaited call of pass p settles: processWithAI up to its next await,
\* or through its catch and finally
StageSettles(p, outcome) ==
    /\ passes[p].pc = "awaiting"
    /\ IF outcome = "throws" /\ Stages(hook)[passes[p].stage] \notin CaughtInPlace
       THEN /\ isProcessing' = LeavesOnThrow(isProcessing)
            /\ passes' = [passes EXCEPT ![p] = Pass("finished", passes[p].stage)]
       ELSE IF passes[p].stage = Len(Stages(hook))
       THEN /\ isProcessing' = FALSE
            /\ passes' = [passes EXCEPT ![p] = Pass("finished", passes[p].stage)]
       ELSE /\ isProcessing' = isProcessing
            /\ passes' = [passes EXCEPT ![p] = Pass("awaiting", passes[p].stage + 1)]
    /\ UNCHANGED hook
    /\ UNCHANGED <<segVars, merVars, tabVars, walkVars, engVars, capVars, retryVars,
                   overlapVars, sharedVars, storeVars, domVars>>

SettleOutcomes == {"ok", "throws"}

NextProcessing ==
    \/ AnalyzeFrame
    \/ \E p \in 1..Len(passes) : \E outcome \in SettleOutcomes : ExportSettles(p, outcome)
    \/ \E p \in 1..Len(passes) : \E outcome \in SettleOutcomes : StageSettles(p, outcome)

SpecProcessing == InitProcessing /\ [][NextProcessing]_vars

\* C33 as stated: the flag is up whenever some processWithAI pass has
\* started and not finished, overlapping passes included
C33_FlagCoversEveryPass ==
    (\E p \in 1..Len(passes) : InProgress(passes[p])) => isProcessing

\* each awaited external call eventually settles
StageAdvances(p) ==
    /\ p \in 1..Len(passes)
    /\ \E outcome \in SettleOutcomes : StageSettles(p, outcome)

FairProcessing ==
    SpecProcessing /\ \A p \in 1..MaxPasses : WF_vars(StageAdvances(p))

Started(p) == p \in 1..Len(passes) /\ InProgress(passes[p])

Released(p) == p \in 1..Len(passes) /\ passes[p].pc = "finished" /\ ~isProcessing

\* C34: every processWithAI call that has started comes to its end with
\* isProcessing set to false, whether its awaited calls succeed or throw
C34_FlagReleased == \A p \in 1..MaxPasses : Started(p) ~> Released(p)

\* a pass whose render pass threw has ended and the flag is down
C34_Witness ==
    /\ Len(passes) = 1
    /\ passes[1].pc = "finished"
    /\ Stages(hook)[passes[1].stage] = "convertMarkdownTreeToElements"
    /\ hook = "full"
    /\ ~isProcessing

(***************************************************************************)
(* The whiteboard store's diagram data and the canvas wrapper's effect.    *)
(* updateMermaidDefinition and appendMermaidDefinition await the parse of  *)
(* the definition they are given and then write mermaidData; the wrapper's *)
(* effect runs when the definition or the output it is handed changes and  *)
(* writes the scene.  A null output is NoOutput, a null error is "".       *)
(* The scene starts with what the user has drawn.                          *)
(***************************************************************************)
MaxStoreCalls == 2

Definitions == {"graph TD; A-->B", "graph LR; C-->D", "oops"}

\* parseMermaid resolves for a diagram and rejects for anything else
Parses(definition) == StartsWith(definition, "graph")

Shape(id, x, y, width, height) ==
    [id |-> id, x |-> x, y |-> y, width |-> width, height |-> height]

\* what graphToExcalidraw and convertToExcalidrawElements make of an output
GraphElements(output) ==
    IF StartsWith(output.of, "graph TD")
    THEN <<Shape("A", 0, 0, 100, 40), Shape("B", 0, 80, 100, 40)>>
    ELSE <<Shape("C", 10, 0, 60, 30), Shape("D", 100, 0, 60, 30)>>

Drawings ==
    {<<>>,
     <<Shape("drawn", 20, 30, 200, 50)>>,
     <<Shape("drawn", 20, 30, 200, 50), Shape("wide", 900, 400, 250, 80)>>}

StoreCall(kind, definition, at) == [kind |-> kind, definition |-> definition, pc |-> at]

InitStore ==
    /\ mermaidData = InitialMermaidData
    /\ storeCalls = <<>>
    /\ appendMode \in BOOLEAN
    /\ canvas \in Drawings
    /\ rendered = <<"", NoOutput>>
    /\ SegmentIdle
    /\ MermaidIdle
    /\ TableIdle
    /\ WalkerIdle
    /\ EngineIdle
    /\ ExtractionIdle
    /\ RetryIdle
    /\ OverlapIdle
    /\ SharedIdle
    /\ ProcessingIdle
    /\ DocumentIdle

\* updateMermaidDefinition(definition), up to its await of parseMermaid
UpdateMermaidDefinition(definition) ==
    /\ Len(storeCalls) < MaxStoreCalls
    /\ storeCalls' = Append(storeCalls, StoreCall("update", definition, "parsing"))
    /\ UNCHANGED <<mermaidData, appendMode, canvas, rendered>>
    /\ UNCHANGED <<segVars, merVars, tabVars, walkVars, engVars, capVars, retryVars,
                   overlapVars, sharedVars, procVars, domVars>>

\* appendMermaidDefinition(definition), up to its await of parseMermaid
AppendMermaidDefinition(definition) ==
    /\ Len(storeCalls) < MaxStoreCalls
    /\ storeCalls' = Append(storeCalls, StoreCall("append", definition, "parsing"))
    /\ UNCHANGED <<mermaidData, appendMode, canvas, rendered>>
    /\ UNCHANGED <<segVars, merVars, tabVars, walkVars, engVars, capVars, retryVars,
                   overlapVars, sharedVars, procVars, domVars>>

Parsed(c) == [id |-> c, of |-> storeCalls[c].definition]

Failed(definition) ==
    [definition |-> definition, output |-> NoOutput, error |-> "Error: " \o definition]

\* lines 86-101: the update's write, on success and in its catch
UpdateWrites(c) ==
    IF Parses(storeCalls[c].definition)
    THEN [definition |-> storeCalls[c].definition, output |-> Parsed(c), error |-> ""]
    ELSE Failed(storeCalls[c].definition)

\* lines 111-134: the append's write, on success and in its catch
AppendWrites(c) ==
    IF Parses(storeCalls[c].definition)
    THEN [definition |-> IF mermaidData.definition # ""
                         THEN mermaidData.definition \o "\n\n--- New Analysis ---\n\n"
                                  \o storeCalls[c].definition
                         ELSE storeCalls[c].definition,
          output |-> Parsed(c), error |-> ""]
    ELSE Failed(storeCalls[c].definition)

\* the parse that call c awaits settles, and the call writes the store
ParseSettles(c) ==
    /\ storeCalls[c].pc = "parsing"
    /\ mermaidData' = IF storeCalls[c].kind = "update" THEN UpdateWrites(c) ELSE AppendWrites(c)
    /\ storeCalls' = [storeCalls EXCEPT ![c].pc = "settled"]
    /\ UNCHANGED <<appendMode, canvas, rendered>>
    /\ UNCHANGED <<segVars, merVars, tabVars, walkVars, engVars, capVars, retryVars,
                   overlapVars, sharedVars, procVars, domVars>>

RightEdges(existing) == {existing[k].x + existing[k].width : k \in 1..Len(existing)}
BottomEdges(existing) == {existing[k].y + existing[k].height : k \in 1..Len(existing)}

\* an offset that never wraps to the next row
AppendOffsetNoWrap(existing) ==
    IF Len(existing) > 0
    THEN [x |-> SetMax(RightEdges(existing)) + 100, y |-> 0]
    ELSE [x |-> 0, y |-> 0]

\* ExcalidrawWrapper.tsx lines 48-61
AppendOffset(existing) ==
    IF Len(existing) > 0
    THEN IF SetMax(RightEdges(existing)) + 100 > 1200
         THEN [x |-> 0, y |-> SetMax(BottomEdges(existing)) + 100]
         ELSE [x |-> SetMax(RightEdges(existing)) + 100, y |-> 0]
    ELSE [x |-> 0, y |-> 0]

\* lines 64-68
OffsetElements(new, offset) ==
    [k \in 1..Len(new) |-> [new[k] EXCEPT !.x = new[k].x + offset.x, !.y = new[k].y + offset.y]]

\* lines 32-81: what the effect leaves in the scene
EffectScene(definition, output, existing) ==
    IF definition = "" \/ output = NoOutput THEN <<>>
    ELSE IF appendMode
    THEN existing \o OffsetElements(GraphElements(output), AppendOffset(existing))
    ELSE GraphElements(output)

EffectDue == rendered # <<mermaidData.definition, mermaidData.output>>

\* the wrapper's effect runs for the definition and the output it was handed
RunEffect ==
    /\ EffectDue
    /\ canvas' = EffectScene(mermaidData.definition, mermaidData.output, canvas)
    /\ rendered' = <<mermaidData.definition, mermaidData.output>>
    /\ UNCHANGED <<mermaidData, storeCalls, appendMode>>
    /\ UNCHANGED <<segVars, merVars, tabVars, walkVars, engVars, capVars, retryVars,
                   overlapVars, sharedVars, procVars, domVars>>

NextStore ==
    \/ \E definition \in Definitions : UpdateMermaidDefinition(definition)
    \/ \E definition \in Definitions : AppendMermaidDefinition(definition)
    \/ \E c \in 1..Len(storeCalls) : ParseSettles(c)
    \/ RunEffect

SpecStore == InitStore /\ [][NextStore]_vars

AllSettledUpdates ==
    /\ Len(storeCalls) >= 2
    /\ \A c \in 1..Len(storeCalls) :
          storeCalls[c].kind = "update" /\ storeCalls[c].pc = "settled"

ResultOfParsing(definition) ==
    /\ mermaidData.definition = definition
    /\ IF Parses(definition)
       THEN mermaidData.output.of = definition /\ mermaidData.error = ""
       ELSE mermaidData.output = NoOutput /\ mermaidData.error # ""

\* C35 as stated: once the parses of overlapping updateMermaidDefinition
\* calls have all settled, the store holds the definition of the call made
\* last and the result of parsing it, whatever order the parses settled in
C35_LatestUpdateWins ==
    AllSettledUpdates => ResultOfParsing(storeCalls[Len(storeCalls)].definition)

AppendSettles(c) ==
    /\ storeCalls[c].kind = "append"
    /\ storeCalls[c].pc = "parsing"
    /\ storeCalls'[c].pc = "settled"

Separator == "\n\n--- New Analysis ---\n\n"

\* C36 as stated: after an appendMermaidDefinition call, whether its parse
\* succeeded or failed, the definition stored before is a prefix of the one
\* stored after (on success followed by the separator and the new definition)
C36_AppendKeepsDefinitions ==
    [][\A c \in 1..Len(storeCalls) :
          AppendSettles(c) =>
              /\ IsPrefix(mermaidData.definition, mermaidData'.definition)
              /\ (Parses(storeCalls[c].definition) /\ mermaidData.definition # "") =>
                    mermaidData'.definition =
                        mermaidData.definition \o Separator \o storeCalls[c].definition]_vars

EffectRuns == rendered' # rendered

FailedParseShown ==
    /\ EffectRuns
    /\ mermaidData.definition # ""
    /\ mermaidData.output = NoOutput
    /\ mermaidData.error # ""

\* C37 as stated: when the store holds a non-empty definition with a null
\* output because its parse failed, the wrapper's effect leaves the elements
\* of the scene as they are
C37_FailedParseKeepsCanvas == [][FailedParseShown => canvas' = canvas]_vars

AppendsDiagram ==
    /\ EffectRuns
    /\ appendMode
    /\ mermaidData.definition # ""
    /\ mermaidData.output # NoOutput

MaxRight == SetMax({canvas[k].x + canvas[k].width : k \in 1..Len(canvas)})
MaxBottom == SetMax({canvas[k].y + canvas[k].height : k \in 1..Len(canvas)})

CommonOffset ==
    IF canvas = <<>> THEN <<0, 0>>
    ELSE IF MaxRight + 100 > 1200 THEN <<0, MaxBottom + 100>>
    ELSE <<MaxRight + 100, 0>>

ShiftedBy(new, offset) ==
    /\ Len(canvas') = Len(canvas) + Len(new)
    /\ SubSeq(canvas', 1, Len(canvas)) = canvas
    /\ \A k \in 1..Len(new) :
          canvas'[Len(canvas) + k] =
              [new[k] EXCEPT !.x = new[k].x + offset[1], !.y = new[k].y + offset[2]]

\* C38: in append mode, with a non-empty definition and an output, the scene
\* the effect pushes is the existing elements, unchanged and in order,
\* followed by the new elements, each shifted by one common offset:
\* (maxX + 100, 0) with maxX the largest right edge of the existing elements,
\* (0, maxY + 100) when maxX + 100 is over 1200, (0, 0) when the scene was empty
C38_AppendKeepsExisting ==
    [][AppendsDiagram => ShiftedBy(GraphElements(mermaidData.output), CommonOffset)]_vars

\* a diagram was appended to a scene whose right edge is past the limit: it
\* stands one row down, below the user's two drawings
C38_Witness ==
    /\ appendMode
    /\ Len(canvas) = 4
    /\ canvas[2].id = "wide"
    /\ canvas[3].x = GraphElements(mermaidData.output)[1].x
    /\ canvas[3].y = 480 + 100
    /\ rendered = <<mermaidData.definition, mermaidData.output>>

\* C39 as stated: once a convertLatexToImage call has returned, the
\* off-screen container it appended to the document body has been removed,
\* also when typesetting or serializing threw
C39_ScratchNodeRemoved ==
    \A c \in 1..Len(renderPc) : renderPc[c] = "returned" => ~tempDivs[c]

====
